---------------------------- MODULE Spec2Model ----------------------------
(***************************************************************************)
(* The erasure-coded read path of the XL object store: XL.ReadFile, its    *)
(* metadata version probe, quorum selection, shard opening and the         *)
(* producer goroutine that decodes blocks into a pipe.                     *)
(*                                                                         *)
(* One logical object (volume, path) is modelled over N = DataBlocks +     *)
(* ParityBlocks backends.  Backend d holds file.json (meta[d]) and its     *)
(* shard file part.<d> (parts[d]).  Bytes are symbols of a small prime     *)
(* field so that the codec is a real MDS code and not the identity.        *)
(***************************************************************************)
EXTENDS Integers, Sequences, FiniteSets, TLC

(***************************************************************************)
(* Program parameters.                                                     *)
(***************************************************************************)
DataBlocks == 2
ParityBlocks == 2
erasureBlockSize == 4

totalBlocks == DataBlocks + ParityBlocks
readQuorum == DataBlocks + 1
\* A write quorum of no more than the read quorum.
writeQuorumOfReadQuorum == DataBlocks + 1

writeQuorum == DataBlocks + ParityBlocks

\* The ordered backend set xl.storageDisks, by ordinal.
storageDisks == 0 .. (totalBlocks - 1)

(***************************************************************************)
(* Bounds of the model.                                                    *)
(***************************************************************************)
MaxSize == 8
MaxVersion == 2

\* Shard symbols ("bytes"): the prime field Z/3.
GF == 0 .. 2
Q == Cardinality(GF)

Min(a, b) == IF a < b THEN a ELSE b
Max(a, b) == IF a < b THEN b ELSE a

RECURSIVE SumTo(_, _)
SumTo(f, n) == IF n < 0 THEN 0 ELSE f[n] + SumTo(f, n - 1)

(***************************************************************************)
(* Block arithmetic.                                                       *)
(***************************************************************************)
getEncodedBlockLen(inputLen, dataBlocks) ==
    (inputLen + dataBlocks - 1) \div dataBlocks

\* Size of the block the producer decodes when totalLeft bytes remain.
curBlockSizeOf(totalLeft) ==
    IF erasureBlockSize < totalLeft THEN erasureBlockSize ELSE totalLeft

\* checkBlockSize: length of the first non-empty block, 0 when there is none.
\* A nil block is the empty sequence with present = FALSE.
Nil == [present |-> FALSE, data |-> << >>]
Blk(s) == [present |-> TRUE, data |-> s]

RECURSIVE checkBlockSizeFrom(_, _)
checkBlockSizeFrom(blocks, i) ==
    IF i > Len(blocks) THEN 0
    ELSE IF Len(blocks[i].data) # 0 THEN Len(blocks[i].data)
    ELSE checkBlockSizeFrom(blocks, i + 1)

\* checkBlockSize returning the number of blocks: never 0 for a block read.
checkBlockSizeCount(blocks) == Len(blocks)

checkBlockSize(blocks) == checkBlockSizeFrom(blocks, 1)

(***************************************************************************)
(* The Reed-Solomon codec (D data rows, P parity rows over GF).            *)
(* Row i < D is data symbol i; parity row j has coefficient (i+1)^j for    *)
(* data symbol i.  Shard index i is 0-based, sequences are 1-based.        *)
(***************************************************************************)
Coef(row, i) ==
    IF row < DataBlocks THEN (IF row = i THEN 1 ELSE 0)
    ELSE ((i + 1) ^ (row - DataBlocks)) % Q

\* Symbol of shard row for the data column dv (a function 0..D-1 -> GF).
EncSym(dv, row) ==
    SumTo([i \in 0 .. (DataBlocks - 1) |-> Coef(row, i) * dv[i]], DataBlocks - 1) % Q

DataCols == [0 .. (DataBlocks - 1) -> GF]

\* split: the N shards of one block of cur bytes, each ceil(cur / D) long, the
\* data zero-padded to D * ceil(cur / D).
PadAt(block, k) == IF k <= Len(block) THEN block[k] ELSE 0

Split(block) ==
    LET n == getEncodedBlockLen(Len(block), DataBlocks)
        col(k) == [i \in 0 .. (DataBlocks - 1) |-> PadAt(block, i * n + k)]
    IN  [row \in storageDisks |-> [k \in 1 .. n |-> EncSym(col(k), row)]]

\* verify: every shard present, of one length, and the parity relations hold.
Verify(blocks) ==
    /\ \A i \in 1 .. Len(blocks) : blocks[i].present
    /\ \A i \in 1 .. Len(blocks) : Len(blocks[i].data) = Len(blocks[1].data)
    /\ \A k \in 1 .. Len(blocks[1].data) :
          LET dv == [i \in 0 .. (DataBlocks - 1) |-> blocks[i + 1].data[k]]
          IN  \A row \in storageDisks : blocks[row + 1].data[k] = EncSym(dv, row)

PresentRows(blocks) == {i \in 1 .. Len(blocks) : blocks[i].present}

\* The first D present rows, the ones a reconstruction decodes from.
RECURSIVE FirstRows(_, _)
FirstRows(S, n) ==
    IF n = 0 \/ S = {} THEN {}
    ELSE LET m == CHOOSE x \in S : \A y \in S : x <= y
         IN  {m} \cup FirstRows(S \ {m}, n - 1)

\* reconstruct fails with fewer than D shards or with shards of unequal length.
ReconstructFails(blocks) ==
    \/ Cardinality(PresentRows(blocks)) < DataBlocks
    \/ \E i, j \in PresentRows(blocks) : Len(blocks[i].data) # Len(blocks[j].data)

\* reconstruct: the missing entries are filled from the first D present ones;
\* present entries are left as they are.
Reconstruct(blocks) ==
    LET rows == FirstRows(PresentRows(blocks), DataBlocks)
        one == CHOOSE i \in rows : TRUE
        n == Len(blocks[one].data)
        dvAt(k) == CHOOSE dv \in DataCols :
                      \A i \in rows : EncSym(dv, i - 1) = blocks[i].data[k]
    IN  [i \in 1 .. Len(blocks) |->
            IF blocks[i].present THEN blocks[i]
            ELSE Blk([k \in 1 .. n |-> EncSym(dvAt(k), i - 1)])]

\* join: the first dataLen bytes of the concatenated data shards.
RECURSIVE ConcatData(_, _)
ConcatData(blocks, i) ==
    IF i > DataBlocks THEN << >>
    ELSE blocks[i].data \o ConcatData(blocks, i + 1)

JoinFails(blocks, dataLen) ==
    \/ \E i \in 1 .. DataBlocks : ~blocks[i].present
    \/ Len(ConcatData(blocks, 1)) < dataLen

Join(blocks, dataLen) == SubSeq(ConcatData(blocks, 1), 1, dataLen)


(***************************************************************************)
(* Object contents and the on-disk shard layout.                           *)
(***************************************************************************)
\* Object sizes a write may use: empty, a short block, one block, blocks
\* followed by a short one, the bound.
Sizes == {0, erasureBlockSize - 1, erasureBlockSize, MaxSize - 1, MaxSize}

\* The sizes CreateFile is called with.
WriteSizes == {MaxSize}

\* The bytes of version v of the object, n bytes long.
Original(v, n) == [k \in 1 .. n |-> (v * (k + 1)) % Q]

\* part.<d> of an object: for every erasure block, shard d of its split.
RECURSIVE ShardFileFrom(_, _, _)
ShardFileFrom(content, d, from) ==
    IF from > Len(content) THEN << >>
    ELSE LET cur == curBlockSizeOf(Len(content) - from + 1)
         IN  Split(SubSeq(content, from, from + cur - 1))[d]
                \o ShardFileFrom(content, d, from + cur)

ShardFile(content, d) == ShardFileFrom(content, d, 1)

NoMeta == [ok |-> FALSE, hasVersion |-> FALSE, version |-> 0, hasSize |-> FALSE, size |-> 0]
MetaOf(v, n) == [ok |-> TRUE, hasVersion |-> TRUE, version |-> v, hasSize |-> TRUE, size |-> n]
NoPart == [present |-> FALSE, data |-> << >>]

VARIABLES
    meta,       \* meta[d]: file.json on backend d (ok = readable and well-formed)
    parts,      \* parts[d]: part.<d> on backend d
    committed,  \* [ver, size]: the last version CreateFile reported successful
    nsLock,     \* the namespace lock entry of (volume, path)
    wr,         \* the CreateFile call: pc, version, size, next backend
    rd,         \* the ReadFile call: pc, arguments, result
    readers,    \* the shard readers ReadFile opened, in slice order
    prod,       \* the producer goroutine: pc, totalLeft, decoded block
    pipe,       \* io.Pipe: writer-side close, reader-side close, bytes delivered
    buckets,    \* buckets[b]: the bucket directory b of the filesystem (ACL, object names)
    listObjectMap, \* the listing continuation cache: ListObjectParams -> parked walker
    ls,         \* the ListObjects call: pc, arguments, walker in hand, result
    pg,         \* the client's pagination: arguments, next marker, entries received
    put,        \* the PutBucket request last answered: bucket, status, Location header
    calls,      \* calls[c]: the ListObjects call of caller c, one of several at a time
    resp,       \* the request last handled by a bucket handler and its response
    nsLockMap,  \* the namespace lock table: key (volume, path) -> entry
    tasks       \* the tasks that call lockNS and unlockNS on the table

diskVars == <<meta, parts, committed>>
readVars == <<rd, readers, prod, pipe>>
xlVars == <<meta, parts, committed, nsLock, wr, rd, readers, prod, pipe>>
fsVars == <<buckets, listObjectMap, ls, pg, put, calls, resp>>
nsVars == <<nsLockMap, tasks>>
vars == <<meta, parts, committed, nsLock, wr, rd, readers, prod, pipe,
          buckets, listObjectMap, ls, pg, put, calls, resp, nsLockMap, tasks>>

(***************************************************************************)
(* The filesystem facade at rest: no bucket directory, an empty            *)
(* continuation cache, no ListObjects call, no pagination, no PutBucket    *)
(* request answered.  A name is a sequence of tokens (see Alphabet).       *)
(***************************************************************************)
BucketNames == {"bkt", "new", "Bad!"}

NoBucket == [exists |-> FALSE, acl |-> "", keys |-> {}]

NoWalker == [id |-> 0, ch |-> << >>]

NoResult ==
    [err |-> "", Objects |-> << >>, Prefixes |-> << >>,
     IsTruncated |-> FALSE, NextMarker |-> << >>]

LsIdle ==
    [pc |-> "idle", bucket |-> "", prefix |-> << >>, marker |-> << >>,
     delimiter |-> "", maxKeys |-> 0, prefixOK |-> TRUE, walker |-> NoWalker,
     popped |-> FALSE, result |-> NoResult]

PgNone ==
    [pages |-> 0, bucket |-> "", prefix |-> << >>, delimiter |-> "", maxKeys |-> 0,
     first |-> << >>, marker |-> << >>, Objects |-> << >>, Prefixes |-> << >>,
     done |-> FALSE, walkerErr |-> FALSE, last |-> NoWalker]

PutNone ==
    [n |-> 0, bucket |-> "", made |-> FALSE, ioErr |-> FALSE, status |-> "",
     Location |-> << >>]

\* No request answered by a bucket handler.  written counts the responses
\* the handler wrote, fsCalls lists its calls of api.Filesystem in order;
\* aclRequired is !api.Anonymous && isRequestRequiresACLCheck(req), private
\* is what IsPrivateBucket answers for the bucket.
RespNone ==
    [n |-> 0, handler |-> "", bucket |-> "", aclRequired |-> FALSE, private |-> FALSE,
     status |-> "", written |-> 0, fsCalls |-> << >>]

\* The callers of concurrent ListObjects calls, none of them in a call.
Callers == {"c1", "c2"}

\* n counts the calls the caller has made.
CallIdle ==
    [pc |-> "idle", n |-> 0, marker |-> << >>, maxKeys |-> 0, walker |-> NoWalker,
     popped |-> FALSE, result |-> NoResult]

CallsNone == [c \in Callers |-> CallIdle]

FsNone ==
    /\ buckets = [b \in BucketNames |-> NoBucket]
    /\ listObjectMap = {}
    /\ ls = LsIdle
    /\ pg = PgNone
    /\ put = PutNone
    /\ calls = CallsNone
    /\ resp = RespNone

(***************************************************************************)
(* Namespace lock of (volume, path): a readers-writer lock.  locked and    *)
(* unlocked count the shared lockNS / unlockNS calls made on it.           *)
(***************************************************************************)
FreeLock == [readers |-> 0, writer |-> FALSE, locked |-> 0, unlocked |-> 0]

\* A lock that an exclusive caller may take while shared holders remain.
canLockNSOverReaders(ns, readLock) == ~ns.writer

canLockNS(ns, readLock) ==
    IF readLock THEN ~ns.writer ELSE ~ns.writer /\ ns.readers = 0

lockNS(ns, readLock) ==
    IF readLock THEN [ns EXCEPT !.readers = @ + 1, !.locked = @ + 1]
    ELSE [ns EXCEPT !.writer = TRUE]

unlockNS(ns, readLock) ==
    IF readLock THEN [ns EXCEPT !.readers = @ - 1, !.unlocked = @ + 1]
    ELSE [ns EXCEPT !.writer = FALSE]

\* ReadFile without the defer statement of line 606: the lock is kept.
deferredUnlockNSMissing(ns) == ns

\* defer xl.unlockNS(volume, path, readLock): runs when ReadFile returns or panics.
deferredUnlockNS(ns) == unlockNS(ns, TRUE)

(***************************************************************************)
(* The namespace lock table behind lockNS and unlockNS: for every key      *)
(* (volume, path) in use an entry with a readers-writer lock and a pin     *)
(* count.  lockNS pins the entry, making it when there is none, and then   *)
(* waits for the lock; unlockNS releases the lock and unpins, and the      *)
(* unpin that brings the count to zero deletes the entry.  Pinning and     *)
(* unpinning are atomic.                                                   *)
(***************************************************************************)
MaxLocks == 2

Keys == {<<"vol", "a">>, <<"vol", "b">>}
Tasks == {"t1", "t2", "t3"}

NoEntry == [present |-> FALSE, ref |-> 0, lock |-> FreeLock]
TaskIdle == [pc |-> "idle", key |-> << >>, readLock |-> FALSE, calls |-> 0]

NsNone ==
    /\ nsLockMap = [k \in Keys |-> NoEntry]
    /\ tasks = [t \in Tasks |-> TaskIdle]

pinEntry(e) ==
    IF e.present THEN [e EXCEPT !.ref = @ + 1]
    ELSE [present |-> TRUE, ref |-> 1, lock |-> FreeLock]

\* An unpin that leaves the entry in the table at pin count zero.
unpinEntryKept(e) == [e EXCEPT !.ref = @ - 1]

unpinEntry(e) == IF e.ref = 1 THEN NoEntry ELSE [e EXCEPT !.ref = @ - 1]

\* lockNS, first half: the entry of the key is pinned.
NSLockPin(t, k, readLock) ==
    /\ tasks[t].pc = "idle"
    /\ tasks[t].calls < MaxLocks
    /\ nsLockMap' = [nsLockMap EXCEPT ![k] = pinEntry(@)]
    /\ tasks' = [tasks EXCEPT ![t] = [pc |-> "waiting", key |-> k, readLock |-> readLock,
                                      calls |-> @.calls + 1]]
    /\ UNCHANGED <<xlVars, fsVars>>

\* lockNS, second half: the readers-writer lock of the entry is taken, once
\* its holders allow it.
NSLockAcquire(t) ==
    /\ tasks[t].pc = "waiting"
    /\ canLockNS(nsLockMap[tasks[t].key].lock, tasks[t].readLock)
    /\ nsLockMap' = [nsLockMap EXCEPT ![tasks[t].key].lock = lockNS(@, tasks[t].readLock)]
    /\ tasks' = [tasks EXCEPT ![t].pc = "holding"]
    /\ UNCHANGED <<xlVars, fsVars>>

\* unlockNS: the lock is released and the entry unpinned.
NSUnlock(t) ==
    /\ tasks[t].pc = "holding"
    /\ nsLockMap' = [nsLockMap EXCEPT ![tasks[t].key] =
                        unpinEntry([@ EXCEPT !.lock = unlockNS(@, tasks[t].readLock)])]
    /\ tasks' = [tasks EXCEPT ![t] = [TaskIdle EXCEPT !.calls = tasks[t].calls]]
    /\ UNCHANGED <<xlVars, fsVars>>

(***************************************************************************)
(* CreateFile: under the exclusive lock the new version is written        *)
(* backend by backend, part.<d> and then file.json with version + 1 taking *)
(* effect together on a backend.  A write that fails part-way leaves the   *)
(* backends it did not reach at the older version.                         *)
(***************************************************************************)
WrIdle == [pc |-> "idle", ver |-> 0, size |-> 0, next |-> 0]

HighestVersion == Max(committed.ver, wr.ver)

\* The read is over: ReadFile has returned and its stream, if any, has ended.
ReadOver == rd.pc = "returned" /\ (rd.result = "stream" => prod.pc = "exit")

CreateFileLock ==
    /\ wr.pc = "idle"
    /\ ~ReadOver
    /\ HighestVersion < MaxVersion
    /\ canLockNS(nsLock, FALSE)
    /\ \E n \in WriteSizes :
          wr' = [pc |-> "write", ver |-> HighestVersion + 1, size |-> n, next |-> 0]
    /\ nsLock' = lockNS(nsLock, FALSE)
    /\ UNCHANGED <<diskVars, readVars>>
    /\ UNCHANGED <<fsVars, nsVars>>

CreateFileDisk ==
    /\ wr.pc = "write"
    /\ wr.next < totalBlocks
    /\ parts' = [parts EXCEPT ![wr.next] =
                    Blk(ShardFile(Original(wr.ver, wr.size), wr.next))]
    /\ meta' = [meta EXCEPT ![wr.next] =
                    MetaOf(wr.ver, wr.size)]
    /\ wr' = [wr EXCEPT !.next = @ + 1]
    /\ UNCHANGED <<committed, nsLock, readVars>>
    /\ UNCHANGED <<fsVars, nsVars>>

\* All writeQuorum backends acknowledged shards and metadata.
CreateFileCommit ==
    /\ wr.pc = "write"
    /\ wr.next >= writeQuorum
    /\ committed' = [ver |-> wr.ver, size |-> wr.size]
    /\ wr' = [wr EXCEPT !.pc = "idle"]
    /\ nsLock' = unlockNS(nsLock, FALSE)
    /\ UNCHANGED <<meta, parts, readVars>>
    /\ UNCHANGED <<fsVars, nsVars>>

\* A backend fails during the write: the write is reported failed.
CreateFileFail ==
    /\ wr.pc = "write"
    /\ wr.next < writeQuorum
    /\ wr' = [wr EXCEPT !.pc = "idle"]
    /\ nsLock' = unlockNS(nsLock, FALSE)
    /\ UNCHANGED <<diskVars, readVars>>
    /\ UNCHANGED <<fsVars, nsVars>>

(***************************************************************************)
(* Damage between a write and a read.                                      *)
(***************************************************************************)
\* At most P + 1 shard files and at most P metadata files are lost.
LostParts == Cardinality({d \in storageDisks : ~parts[d].present})
LostMeta == Cardinality({d \in storageDisks : ~meta[d].ok})

DeleteShard(d) ==
    /\ wr.pc = "idle" /\ rd.pc = "idle"
    /\ committed.ver > 0
    /\ parts[d].present
    /\ LostParts <= ParityBlocks
    /\ parts' = [parts EXCEPT ![d] = NoPart]
    /\ UNCHANGED <<meta, committed, nsLock, wr, readVars>>
    /\ UNCHANGED <<fsVars, nsVars>>

LoseMeta(d) ==
    /\ wr.pc = "idle" /\ rd.pc = "idle"
    /\ committed.ver > 0
    /\ meta[d].ok
    /\ LostMeta < ParityBlocks
    /\ meta' = [meta EXCEPT ![d] = NoMeta]
    /\ UNCHANGED <<parts, committed, nsLock, wr, readVars>>
    /\ UNCHANGED <<fsVars, nsVars>>

(***************************************************************************)
(* XL.ReadFile up to the pipe: validation, lock, quorum, size, shard open. *)
(***************************************************************************)
Offsets == {0, erasureBlockSize}

RdIdle == [pc |-> "idle", volOK |-> TRUE, pathOK |-> TRUE, offset |-> 0,
           versions |-> << >>, quorumDisks |-> << >>, fileSize |-> 0,
           transport |-> -1, openCalls |-> 0, result |-> "none"]
ProdNone == [pc |-> "none", totalLeft |-> 0, block |-> << >>, shard |-> 0, left |-> 0]
PipeNone == [werr |-> "open", rclosed |-> FALSE, delivered |-> << >>]

\* Lines 524-542 for one backend.  The metadata map is declared once, before
\* the loop over the backends, and Decode adds to it: carried is the
\* file.version an earlier backend left in it (-1 when none did).
probeOne(m, carried) ==
    IF ~m.ok THEN [version |-> -1, carried |-> carried]
    ELSE IF m.hasVersion THEN [version |-> m.version, carried |-> m.version]
    ELSE IF carried = -1 THEN [version |-> 0, carried |-> carried]
    ELSE [version |-> carried, carried |-> carried]

RECURSIVE probeFrom(_, _, _)
probeFrom(d, carried, acc) ==
    IF d >= totalBlocks THEN acc
    ELSE LET one == probeOne(meta[d], carried)
         IN  probeFrom(d + 1, one.carried, acc @@ (d :> one.version))

\* getMetaDataFileVersions: the result map is a named return value that is never
\* made, so the first "diskVersionMap[disk] = -1" is a write to a nil map and
\* panics; with no backend at all the loop body never runs and nil is returned.
getMetaDataFileVersions(disks) ==
    IF disks # {} THEN [panic |-> TRUE, versions |-> << >>]
    ELSE [panic |-> FALSE, versions |-> << >>]

\* The loop of getReadFileQuorumDisks, lines 555-568, over the map in the
\* iteration order given: index is the iteration counter i.
RECURSIVE quorumLoop(_, _, _, _, _)
quorumLoop(versions, order, k, higherVersion, quorumDisks) ==
    IF k > Len(order) THEN quorumDisks
    ELSE LET disk == order[k]
             version == versions[disk]
             i == k - 1
         IN  IF version > higherVersion
             THEN quorumLoop(versions, order, k + 1, version,
                             <<[disk |-> disk, index |-> i]>>)
             ELSE IF version = higherVersion
             THEN quorumLoop(versions, order, k + 1, higherVersion,
                             Append(quorumDisks, [disk |-> disk, index |-> i]))
             ELSE quorumLoop(versions, order, k + 1, higherVersion, quorumDisks)

getReadFileQuorumDisks(versions, order) == quorumLoop(versions, order, 1, 0, << >>)

\* The orders in which a range over a map with the keys S may visit them.
IterationOrders(S) ==
    {o \in [1 .. Cardinality(S) -> S] : \A i, j \in DOMAIN o : i # j => o[i] # o[j]}

\* getFileSize: file.size of the backend's file.json, read into a map of its own.
getFileSize(m) ==
    IF ~m.ok THEN [err |-> TRUE, size |-> 0]
    ELSE IF ~m.hasSize THEN [err |-> TRUE, size |-> 0]
    ELSE [err |-> FALSE, size |-> m.size]

\* disk.ReadFile(volume, path/part.<index>, offset) on a backend: the backend
\* holds part.<ordinal> only; on the backend transport (-1 for none) the call
\* fails with an I/O error of the connection.
canOpenPart(disk, index, transport) ==
    disk # transport /\ index = disk /\ parts[disk].present

NewReader(disk, offset) == [disk |-> disk, pos |-> offset, closed |-> 0, ioerr |-> FALSE]

\* The loop of lines 624-641.  readers is a slice of length zero, so the
\* assignment readers[i] after the first successful open panics with the index
\* out of range; the reader just opened is held by nobody.
RECURSIVE openLoop(_, _, _, _, _)
openLoop(quorumDisks, k, readFileError, offset, transport) ==
    IF k > Len(quorumDisks) THEN [outcome |-> "ok", opened |-> << >>, called |-> << >>]
    ELSE IF ~canOpenPart(quorumDisks[k].disk, quorumDisks[k].index, transport)
    THEN IF readFileError < Len(quorumDisks) - readQuorum
         THEN LET rest == openLoop(quorumDisks, k + 1, readFileError + 1, offset,
                                   transport)
              IN  [rest EXCEPT !.called = <<quorumDisks[k].disk>> \o @]
         ELSE [outcome |-> "errOpen", opened |-> << >>,
               called |-> <<quorumDisks[k].disk>>]
    ELSE [outcome |-> "panic", opened |-> <<NewReader(quorumDisks[k].disk, offset)>>,
          called |-> <<quorumDisks[k].disk>>]

\* The validation without the path check of lines 599-601.
validArgumentsVolumeOnly(volOK, pathOK) == volOK

\* Lines 596-601: isValidVolname(volume) and isValidPath(path).
validArguments(volOK, pathOK) == volOK /\ pathOK

\* Input validation, lines 595-601.
ReadFileCall(volOK, pathOK, offset) ==
    /\ rd.pc = "idle"
    /\ rd' = IF validArguments(volOK, pathOK)
             THEN [rd EXCEPT !.pc = "lockNS", !.volOK = volOK, !.pathOK = pathOK,
                             !.offset = offset]
             ELSE [rd EXCEPT !.pc = "returned", !.volOK = volOK, !.pathOK = pathOK,
                             !.offset = offset, !.result = "errInvalidArgument"]
    /\ UNCHANGED <<diskVars, nsLock, wr, readers, prod, pipe>>
    /\ UNCHANGED <<fsVars, nsVars>>

\* xl.lockNS(volume, path, readLock), blocking while a writer holds the key.
ReadFileLockNS ==
    /\ rd.pc = "lockNS"
    /\ canLockNS(nsLock, TRUE)
    /\ nsLock' = lockNS(nsLock, TRUE)
    /\ rd' = [rd EXCEPT !.pc = "probe"]
    /\ UNCHANGED <<diskVars, wr, readers, prod, pipe>>
    /\ UNCHANGED <<fsVars, nsVars>>

\* Line 609 -> 554: the version probe.  Its panic unwinds getReadFileQuorumDisks
\* and ReadFile, whose deferred unlockNS runs.
ReadFileProbe ==
    /\ rd.pc = "probe"
    /\ LET probe == getMetaDataFileVersions(storageDisks)
       IN  IF probe.panic
           THEN /\ rd' = [rd EXCEPT !.pc = "returned", !.result = "panic"]
                /\ nsLock' = deferredUnlockNS(nsLock)
           ELSE /\ rd' = [rd EXCEPT !.pc = "versions", !.versions = probe.versions]
                /\ UNCHANGED nsLock
    /\ UNCHANGED <<diskVars, wr, readers, prod, pipe>>
    /\ UNCHANGED <<fsVars, nsVars>>

\* Lines 555-569 and 610-612: the quorum disks, and errReadQuorum when they
\* are fewer than readQuorum.
ReadFileQuorum ==
    /\ rd.pc = "versions"
    /\ \E order \in IterationOrders(DOMAIN rd.versions) :
          LET quorumDisks == getReadFileQuorumDisks(rd.versions, order)
          IN  IF Len(quorumDisks) < readQuorum
              THEN /\ rd' = [rd EXCEPT !.pc = "returned", !.result = "errReadQuorum",
                                       !.quorumDisks = quorumDisks]
                   /\ nsLock' = deferredUnlockNS(nsLock)
              ELSE /\ rd' = [rd EXCEPT !.pc = "size", !.quorumDisks = quorumDisks]
                   /\ UNCHANGED nsLock
    /\ UNCHANGED <<diskVars, wr, readers, prod, pipe>>
    /\ UNCHANGED <<fsVars, nsVars>>

\* Lines 614-618: file.size of the first quorum disk.
ReadFileSize ==
    /\ rd.pc = "size"
    /\ LET size == getFileSize(meta[rd.quorumDisks[1].disk])
       IN  IF size.err
           THEN /\ rd' = [rd EXCEPT !.pc = "returned", !.result = "errSize"]
                /\ nsLock' = deferredUnlockNS(nsLock)
           ELSE /\ rd' = [rd EXCEPT !.pc = "open", !.fileSize = size.size]
                /\ UNCHANGED nsLock
    /\ UNCHANGED <<diskVars, wr, readers, prod, pipe>>
    /\ UNCHANGED <<fsVars, nsVars>>

\* The calls of disk.ReadFile the loop made on backend d.
callsOn(called, d) == Cardinality({k \in DOMAIN called : called[k] = d})

\* Lines 621-641: the shard files of the quorum disks are opened.  The
\* connection to one backend may be down; rd.transport is that backend when
\* the loop called it, rd.openCalls the calls of disk.ReadFile it made on it.
ReadFileOpen ==
    /\ rd.pc = "open"
    /\ \E transport \in storageDisks \cup {-1} :
       LET open == openLoop(rd.quorumDisks, 1, 0, rd.offset, transport)
           hit == callsOn(open.called, transport) > 0
       IN  /\ transport # -1 => hit
           /\ readers' = open.opened
           /\ IF open.outcome = "ok"
              THEN /\ rd' = [rd EXCEPT !.pc = "pipe", !.transport = transport,
                                       !.openCalls = callsOn(open.called, transport)]
                   /\ UNCHANGED nsLock
              ELSE /\ rd' = [rd EXCEPT !.pc = "returned", !.result = open.outcome,
                                       !.transport = transport,
                                       !.openCalls = callsOn(open.called, transport)]
                   /\ nsLock' = deferredUnlockNS(nsLock)
    /\ UNCHANGED <<diskVars, wr, prod, pipe>>
    /\ UNCHANGED <<fsVars, nsVars>>


(***************************************************************************)
(* The producer goroutine of ReadFile, lines 643-734.                      *)
(*                                                                         *)
(* A shard reader is [disk, pos, closed, ioerr]: it reads part.<disk> from *)
(* byte pos on, closed counts its Close calls, ioerr makes every read of   *)
(* it fail.  Readers see the current bytes of their file.                  *)
(***************************************************************************)
\* io.ReadFull(reader, buf) of n bytes followed by lines 669-671: a full read
\* is kept; a short read of at least one byte returns io.ErrUnexpectedEOF,
\* which line 669 lets through, so the zero-padded buffer is kept; no byte at
\* all is io.EOF and any other error is an I/O error: the block becomes nil.
readShard(r, n) ==
    LET file == parts[r.disk].data
        avail == Max(Len(file) - r.pos, 0)
        got == Min(avail, n)
    IN  IF r.ioerr \/ got = 0
        THEN [blk |-> Nil, reader |-> r]
        ELSE [blk |-> Blk([k \in 1 .. n |->
                              IF k <= got THEN file[r.pos + k] ELSE 0]),
              reader |-> [r EXCEPT !.pos = @ + got]]

\* Lines 658-672: enBlocks[index] for index, reader := range readers; the
\* entries past len(readers) stay nil.
readBlocks(n) ==
    [i \in 1 .. totalBlocks |->
        IF i <= Len(readers) THEN readShard(readers[i], n).blk ELSE Nil]

readersAfterRead(n) ==
    [i \in 1 .. Len(readers) |-> readShard(readers[i], n).reader]

\* Lines 692-694: the number of calls of Reconstruct one iteration makes.
reconstructCalls(enBlocks) ==
    IF checkBlockSize(enBlocks) = 0 THEN 0
    ELSE IF Verify(enBlocks) THEN 0
    ELSE 1

\* Lines 676-710 without the verify of lines 699-709: what Reconstruct
\* returns is joined as it is.
decodeBlockUnverified(enBlocks) ==
    IF checkBlockSize(enBlocks) = 0
    THEN [err |-> "allZero", blocks |-> enBlocks]
    ELSE IF Verify(enBlocks)
    THEN [err |-> "none", blocks |-> enBlocks]
    ELSE IF ReconstructFails(enBlocks)
    THEN [err |-> "reconstruct", blocks |-> enBlocks]
    ELSE [err |-> "none", blocks |-> Reconstruct(enBlocks)]

\* Lines 676-710: the outcome of checking one block: the error that closes
\* the pipe, or the blocks handed to Join.
decodeBlock(enBlocks) ==
    IF checkBlockSize(enBlocks) = 0
    THEN [err |-> "allZero", blocks |-> enBlocks]
    ELSE IF Verify(enBlocks)
    THEN [err |-> "none", blocks |-> enBlocks]
    ELSE IF ReconstructFails(enBlocks)
    THEN [err |-> "reconstruct", blocks |-> enBlocks]
    ELSE IF ~Verify(Reconstruct(enBlocks))
    THEN [err |-> "verifyAfterReconstruct", blocks |-> enBlocks]
    ELSE [err |-> "none", blocks |-> Reconstruct(enBlocks)]

\* Line 720 with twice the block size taken off: the loop skips a block.
totalLeftAfterSkipping(totalLeft) == totalLeft - 2 * erasureBlockSize

\* Line 720: totalLeft = totalLeft - erasureBlockSize.
totalLeftAfter(totalLeft) == totalLeft - erasureBlockSize

\* pipeWriter.CloseWithError(err); return.  The shard readers are not closed.
producerFail(err) ==
    /\ pipe' = [pipe EXCEPT !.werr = IF @ = "open" THEN err ELSE @]
    /\ prod' = [prod EXCEPT !.pc = "exit"]

\* Line 648 as for totalLeft >= 0: one iteration more on a multiple of the
\* block size.
loopContinuesAtZero(totalLeft) == totalLeft >= 0

\* Line 648: for totalLeft > 0.
loopContinues(totalLeft) == totalLeft > 0

\* Lines 644-646: io.Pipe() and go func().
ReadFileSpawn ==
    /\ rd.pc = "pipe"
    /\ rd' = [rd EXCEPT !.pc = "spawned"]
    /\ prod' = [prod EXCEPT !.pc = "loop", !.totalLeft = rd.fileSize]
    /\ UNCHANGED <<diskVars, nsLock, wr, readers, pipe>>
    /\ UNCHANGED <<fsVars, nsVars>>

\* Line 733 and the deferred unlockNS of line 606.
ReadFileReturn ==
    /\ rd.pc = "spawned"
    /\ rd' = [rd EXCEPT !.pc = "returned", !.result = "stream"]
    /\ nsLock' = deferredUnlockNS(nsLock)
    /\ UNCHANGED <<diskVars, wr, readers, prod, pipe>>
    /\ UNCHANGED <<fsVars, nsVars>>

\* One iteration of the loop of line 648 up to the call of Join.
ProducerBlock ==
    /\ prod.pc = "loop"
    /\ loopContinues(prod.totalLeft)
    /\ LET cur == curBlockSizeOf(prod.totalLeft)
           n == getEncodedBlockLen(cur, DataBlocks)
           dec == decodeBlock(readBlocks(n))
       IN  IF dec.err # "none" \/ JoinFails(dec.blocks, cur)
           THEN /\ producerFail(IF dec.err # "none" THEN dec.err ELSE "join")
                /\ readers' = readersAfterRead(n)
           ELSE /\ prod' = [prod EXCEPT !.pc = "join", !.block = dec.blocks,
                                        !.shard = 1, !.left = cur]
                /\ readers' = readersAfterRead(n)
                /\ UNCHANGED pipe
    /\ UNCHANGED <<diskVars, nsLock, wr, rd>>
    /\ UNCHANGED <<fsVars, nsVars>>

\* Join writes the data shards to the pipe one after the other.  A write
\* completes when the consumer, who holds the stream once ReadFile has
\* returned, takes the bytes; on a pipe the consumer has closed it fails.
ProducerJoin ==
    /\ prod.pc = "join"
    /\ \/ /\ pipe.rclosed
          /\ producerFail("errClosedPipe")
          /\ UNCHANGED readers
       \/ /\ ~pipe.rclosed
          /\ rd.pc = "returned"
          /\ LET data == prod.block[prod.shard].data
                 piece == SubSeq(data, 1, Min(prod.left, Len(data)))
                 left == prod.left - Len(piece)
             IN  /\ pipe' = [pipe EXCEPT !.delivered = @ \o piece]
                 /\ prod' = IF left = 0 \/ prod.shard = DataBlocks
                            THEN [prod EXCEPT !.pc = "loop", !.block = << >>,
                                     !.shard = 0, !.left = 0,
                                     !.totalLeft = totalLeftAfter(@)]
                            ELSE [prod EXCEPT !.shard = @ + 1, !.left = left]
          /\ UNCHANGED readers
    /\ UNCHANGED <<diskVars, nsLock, wr, rd>>
    /\ UNCHANGED <<fsVars, nsVars>>

\* Lines 723-729: the loop is over: pipeWriter.Close() and every reader closed.
ProducerFinish ==
    /\ prod.pc = "loop"
    /\ ~loopContinues(prod.totalLeft)
    /\ pipe' = [pipe EXCEPT !.werr = IF @ = "open" THEN "eof" ELSE @]
    /\ readers' = [i \in 1 .. Len(readers) |-> [readers[i] EXCEPT !.closed = @ + 1]]
    /\ prod' = [prod EXCEPT !.pc = "exit"]
    /\ UNCHANGED <<diskVars, nsLock, wr, rd>>
    /\ UNCHANGED <<fsVars, nsVars>>

\* The consumer closes the stream, at any time after it got it.
ConsumerClose ==
    /\ rd.pc = "returned" /\ rd.result = "stream"
    /\ ~pipe.rclosed
    /\ pipe' = [pipe EXCEPT !.rclosed = TRUE]
    /\ UNCHANGED <<diskVars, nsLock, wr, rd, readers, prod>>
    /\ UNCHANGED <<fsVars, nsVars>>

(***************************************************************************)
(* The states ReadFile can be in at line 643: a committed version 1 on     *)
(* every backend, the shared lock held, and readers opened at offset on    *)
(* at least readQuorum backends, in backend order.  One opened shard file  *)
(* may be truncated or have a flipped byte, or its reader may fail.        *)
(***************************************************************************)
RECURSIVE AscendingSeq(_)
AscendingSeq(S) ==
    IF S = {} THEN << >>
    ELSE LET m == CHOOSE x \in S : \A y \in S : x <= y
         IN  <<m>> \o AscendingSeq(S \ {m})

ReaderSets == {S \in SUBSET storageDisks : Cardinality(S) >= readQuorum}

Damage == {"truncated", "flipped", "ioerr"}

damagedShard(file, kind) ==
    IF Len(file) = 0 THEN file
    ELSE IF kind = "truncated" THEN SubSeq(file, 1, Len(file) - 1)
    ELSE IF kind = "flipped" THEN [file EXCEPT ![Len(file)] = (@ + 1) % Q]
    ELSE file

InitProducer ==
    \E n \in Sizes, off \in Offsets, S \in ReaderSets, kind \in Damage :
      \E bad \in S \cup {-1} :
        /\ bad = -1 => kind = "ioerr"
        /\ meta = [d \in storageDisks |-> MetaOf(1, n)]
        /\ parts = [d \in storageDisks |->
                      Blk(IF d = bad
                          THEN damagedShard(ShardFile(Original(1, n), d), kind)
                          ELSE ShardFile(Original(1, n), d))]
        /\ committed = [ver |-> 1, size |-> n]
        /\ nsLock = lockNS(FreeLock, TRUE)
        /\ wr = WrIdle
        /\ rd = [RdIdle EXCEPT !.pc = "pipe", !.offset = off, !.fileSize = n]
        /\ readers = [i \in 1 .. Cardinality(S) |->
                        [NewReader(AscendingSeq(S)[i], off) EXCEPT
                            !.ioerr = (kind = "ioerr" /\ AscendingSeq(S)[i] = bad)]]
        /\ prod = ProdNone
        /\ pipe = PipeNone
        /\ FsNone
        /\ NsNone

NextProducer ==
    \/ ReadFileSpawn
    \/ ReadFileReturn
    \/ ProducerBlock
    \/ ProducerJoin
    \/ ProducerFinish
    \/ ConsumerClose
    \/ CreateFileLock
    \/ CreateFileDisk
    \/ CreateFileCommit
    \/ CreateFileFail

SpecProducer == InitProducer /\ [][NextProducer]_vars

(***************************************************************************)
(* ReadFile from line 555 on: the quorum disks, the size and the shard     *)
(* opens, for every state of the backends and the version map the probe    *)
(* makes of it.                                                            *)
(***************************************************************************)
OpenSize == erasureBlockSize - 1

\* The sizes of the objects read: an empty object and one of a partial block.
OpenSizes == {0, OpenSize}

MetaChoices(n) ==
    {NoMeta, [MetaOf(0, n) EXCEPT !.hasVersion = FALSE],
     [MetaOf(1, n) EXCEPT !.hasSize = FALSE]}
        \cup {MetaOf(v, n) : v \in 1 .. MaxVersion}

\* The empty object is taken as committed on every backend.
InitOpen ==
    \E n \in OpenSizes :
    \E m \in [storageDisks -> MetaChoices(n)], present \in [storageDisks -> BOOLEAN] :
        /\ n = 0 => \A d \in storageDisks : m[d] = MetaOf(1, n)
        /\ meta = m
        /\ parts = [d \in storageDisks |->
                      IF present[d] /\ m[d].ok
                      THEN Blk(ShardFile(Original(m[d].version, n), d))
                      ELSE NoPart]
        /\ committed = [ver |-> 0, size |-> 0]
        /\ nsLock = lockNS(FreeLock, TRUE)
        /\ wr = WrIdle
        /\ rd = [RdIdle EXCEPT !.pc = "versions",
                               !.versions = probeFrom(0, -1, << >>)]
        /\ readers = << >>
        /\ prod = ProdNone
        /\ pipe = PipeNone
        /\ FsNone
        /\ NsNone

NextOpen ==
    \/ ReadFileQuorum
    \/ ReadFileSize
    \/ ReadFileOpen

SpecOpen == InitOpen /\ [][NextOpen]_vars

(***************************************************************************)
(* The whole program: CreateFile and ReadFile calls on one path, with      *)
(* shard files and metadata lost between them.                             *)
(***************************************************************************)
XLNone ==
    /\ meta = [d \in storageDisks |-> NoMeta]
    /\ parts = [d \in storageDisks |-> NoPart]
    /\ committed = [ver |-> 0, size |-> 0]
    /\ nsLock = FreeLock
    /\ wr = WrIdle
    /\ rd = RdIdle
    /\ readers = << >>
    /\ prod = ProdNone
    /\ pipe = PipeNone

Init ==
    /\ XLNone
    /\ FsNone
    /\ NsNone

Next ==
    \/ CreateFileLock
    \/ CreateFileDisk
    \/ CreateFileCommit
    \/ CreateFileFail
    \/ \E d \in storageDisks : DeleteShard(d)
    \/ \E d \in storageDisks : LoseMeta(d)
    \/ \E v, p \in BOOLEAN, off \in Offsets : ReadFileCall(v, p, off)
    \/ ReadFileLockNS
    \/ ReadFileProbe

Spec == Init /\ [][Next]_vars

(***************************************************************************)
(* Every way ReadFile can go: the whole program together with the states   *)
(* of ReadFile at line 555 and at line 643.                                *)
(***************************************************************************)
InitAll == Init \/ InitOpen \/ InitProducer

NextAll == Next \/ NextOpen \/ NextProducer

SpecAll == InitAll /\ [][NextAll]_vars

(***************************************************************************)
(* What the claims speak of.                                               *)
(***************************************************************************)
ValidCall == rd.volOK /\ rd.pathOK

\* The version backend d reports: -1 when file.json is unreadable.
VersionOn(d) ==
    IF ~meta[d].ok THEN -1 ELSE IF meta[d].hasVersion THEN meta[d].version ELSE 0

\* V*, the highest version reported, and the backends that report it.
VStar == CHOOSE v \in {VersionOn(d) : d \in storageDisks} :
            \A d \in storageDisks : VersionOn(d) <= v

MaxSet == {d \in storageDisks : VersionOn(d) = VStar}

\* Every shard file still present holds the shard of the committed version.
ShardsIntact ==
    \A d \in storageDisks :
        parts[d].present =>
            parts[d].data = ShardFile(Original(committed.ver, committed.size), d)

\* ReadFile returned a stream that delivered exactly content and ended cleanly.
StreamOK(content) ==
    /\ rd.result = "stream"
    /\ pipe.werr = "eof"
    /\ pipe.delivered = content

\* C1: a read at offset 0 of a committed object whose highest version is on at
\* least D+1 backends, with at most P shard files deleted since the write,
\* delivers the bytes written and ends without error.
C1_ReadReturnsOriginal ==
    (/\ ReadOver /\ ValidCall /\ rd.offset = 0
     /\ committed.ver > 0 /\ VStar = committed.ver
     /\ Cardinality(MaxSet) >= DataBlocks + 1
     /\ LostParts <= ParityBlocks /\ ShardsIntact)
    => StreamOK(Original(committed.ver, committed.size))

IsPrefix(s, t) == Len(s) <= Len(t) /\ \A k \in 1 .. Len(s) : s[k] = t[k]

AllReadersClosedOnce == \A i \in DOMAIN readers : readers[i].closed = 1

ProducerRunning == prod.pc \in {"loop", "join"}

\* C2: a stream never ends cleanly after fewer than size - offset bytes, and
\* the producer never exits leaving the pipe open: it closes the pipe cleanly
\* after the last block or with the error that stopped it.
C2_NoCleanShortStream ==
    /\ pipe.werr = "eof" =>
          /\ Len(pipe.delivered) >= rd.fileSize - rd.offset
          /\ Len(pipe.delivered) = rd.fileSize
    /\ prod.pc = "exit" => pipe.werr # "open"
    /\ pipe.werr # "open" => prod.pc = "exit"

\* C2 happens: a stream that delivered its first block and then ended with an
\* error, and not cleanly.
C2_Witness ==
    /\ prod.pc = "exit"
    /\ pipe.werr \notin {"open", "eof"}
    /\ Len(pipe.delivered) > 0
    /\ Len(pipe.delivered) < rd.fileSize

\* C3: the bytes of a stream read at offset 0 with all N shard readers, none
\* of them failing, are the bytes of one version: a prefix of the content some CreateFile wrote.
C3_OneVersionPerStream ==
    (/\ rd.offset = 0 /\ Len(readers) = totalBlocks
     /\ \A i \in DOMAIN readers : ~readers[i].ioerr) =>
        \E v \in 1 .. MaxVersion, n \in Sizes \cup WriteSizes :
            IsPrefix(pipe.delivered, Original(v, n))

\* C4: while the producer of a stream is running the shared lock is held and
\* no exclusive lock is granted.
C4_LockHeldWhileProducing ==
    ProducerRunning => (nsLock.readers > 0 /\ ~nsLock.writer)

\* C5: once ReadFile has returned and its stream, if any, has ended, the
\* shared lock is not held, and lockNS and unlockNS were called equally often
\* (never more unlocks than locks at any time).
C5_LockReleased ==
    /\ nsLock.unlocked <= nsLock.locked
    /\ nsLock.readers = nsLock.locked - nsLock.unlocked
    /\ ReadOver => (nsLock.readers = 0 /\ nsLock.locked = nsLock.unlocked)

\* C5 happens: the consumer closed a stream early, the producer has ended, and
\* the lock taken by the call is released.
C5_Witness ==
    /\ ReadOver /\ rd.result = "stream" /\ pipe.rclosed
    /\ pipe.werr = "errClosedPipe"
    /\ nsLock.locked = 1 /\ nsLock.unlocked = 1

\* C6: when the producer has ended, cleanly or with an error, every shard
\* reader that was opened has been closed exactly once.
C6_ReadersClosedOnce ==
    /\ \A i \in DOMAIN readers : readers[i].closed <= 1
    /\ prod.pc = "exit" => AllReadersClosedOnce

\* C7: after the consumer has closed the stream early and the producer has
\* met the closed pipe and ended, the lock is released and the shard readers
\* are closed, so that an exclusive lock can be granted.
C7_ConsumerCloseReleases ==
    (pipe.rclosed /\ pipe.werr = "errClosedPipe" /\ prod.pc = "exit") =>
        (nsLock.readers = 0 /\ AllReadersClosedOnce)

QuorumSet == {rd.quorumDisks[k].disk : k \in DOMAIN rd.quorumDisks}

\* C8: a ReadFile that is over has computed the set of the backends with the
\* highest version as its quorum set, and has failed with errReadQuorum, no
\* shard opened, when that set has fewer than readQuorum members.
C8_QuorumIsMaxVersionSet ==
    (ReadOver /\ ValidCall) =>
        /\ QuorumSet = MaxSet
        /\ Cardinality(MaxSet) < readQuorum =>
              (rd.result = "errReadQuorum" /\ readers = << >>)

\* The backends with readable metadata of the highest version, file.version and
\* file.size in it, and their shard.
Healthy ==
    {d \in MaxSet : /\ meta[d].ok /\ meta[d].hasVersion /\ meta[d].hasSize
                    /\ parts[d].present}

OthersLost == \A d \in storageDisks \ Healthy : ~meta[d].ok /\ ~parts[d].present

\* C9: with exactly D+1 healthy backends, the others lost, ReadFile returns the
\* original bytes; with exactly D it fails with the quorum error.
C9_ThresholdIsReadQuorum ==
    (ReadOver /\ ValidCall /\ rd.offset = 0 /\ VStar >= 1 /\ OthersLost) =>
        /\ Cardinality(Healthy) = DataBlocks + 1 =>
              StreamOK(Original(VStar, meta[CHOOSE d \in Healthy : TRUE].size))
        /\ Cardinality(Healthy) = DataBlocks =>
              (rd.result = "errReadQuorum" /\ readers = << >>)

OnVersion(v) == {d \in storageDisks : VersionOn(d) = v /\ parts[d].present}

\* C10: with version V on fewer than readQuorum backends and version V-1, with
\* its shards, on at least readQuorum backends, ReadFile reads version V-1.
C10_PartialVersionIgnored ==
    (/\ ReadOver /\ ValidCall /\ rd.offset = 0
     /\ VStar >= 2
     /\ Cardinality(MaxSet) < readQuorum
     /\ Cardinality(OnVersion(VStar - 1)) >= readQuorum
     /\ \A d \in storageDisks :
           meta[d].ok => (meta[d].hasSize /\ meta[d].size = OpenSize))
    => StreamOK(Original(VStar - 1, OpenSize))

\* C11: in a read that has its quorum, the index carried by every quorum disk
\* is the ordinal of that disk in the backend ordering, so that the shard file
\* opened on backend i is part.<i>.
C11_IndexIsOrdinal ==
    Len(rd.quorumDisks) >= readQuorum =>
        \A k \in DOMAIN rd.quorumDisks :
            rd.quorumDisks[k].index = rd.quorumDisks[k].disk

\* The stream has ended and nothing but the read happened to the object: no
\* CreateFile ran, every shard file is as written and every reader works.
UndisturbedStreamEnded ==
    /\ prod.pc = "exit" /\ ~pipe.rclosed
    /\ wr.pc = "idle" /\ committed.ver = 1 /\ ShardsIntact
    /\ \A i \in DOMAIN readers : ~readers[i].ioerr

\* C12: a stream read at a block-aligned offset, 0 <= offset <= size, delivers
\* the bytes of the object from offset to the end and ends cleanly; at
\* offset = size it is empty.
C12_StreamFromOffset ==
    (/\ UndisturbedStreamEnded /\ Len(readers) = totalBlocks
     /\ rd.offset <= rd.fileSize) =>
        /\ pipe.werr = "eof"
        /\ pipe.delivered =
              SubSeq(Original(committed.ver, rd.fileSize), rd.offset + 1, rd.fileSize)

\* The producer's part of C13, from line 643 on: the stream of an object of
\* size 0 delivers no byte and ends cleanly, and its producer reads no shard
\* and joins no block.
ZeroSizeProducer ==
    rd.fileSize = 0 =>
        /\ pipe.delivered = << >>
        /\ pipe.werr \in {"open", "eof"}
        /\ prod.pc = "exit" => pipe.werr = "eof"
        /\ prod.pc # "join" /\ prod.block = << >>
        /\ \A i \in DOMAIN readers : readers[i].pos = rd.offset

\* An object of size 0 is committed as version 1 on every backend, every shard
\* file present.
ZeroSizeCommitted ==
    \A d \in storageDisks : meta[d] = MetaOf(1, 0) /\ parts[d].present

\* C13: a ReadFile of a committed object of size 0 returns a stream that
\* delivers no byte and ends without error.
C13_ZeroSizeRead ==
    (ReadOver /\ ValidCall /\ ZeroSizeCommitted) => StreamOK(<< >>)

Carrying(v) == {d \in storageDisks : VersionOn(d) = v}

Newer == {d \in storageDisks : VersionOn(d) > committed.ver}

\* No CreateFile is running, one has succeeded, and no metadata was lost.
AfterWrites == wr.pc = "idle" /\ committed.ver > 0 /\ LostMeta = 0

Alphabet == <<" ", "$multiparts", "$tmpobject", "%", "+", "/", "a", "p", "q", "r", "s">>

Rank(t) == CHOOSE i \in DOMAIN Alphabet : Alphabet[i] = t

\* a < b as Go compares strings: byte by byte, a proper prefix first.
RECURSIVE Less(_, _)
Less(a, b) ==
    IF b = << >> THEN FALSE
    ELSE IF a = << >> THEN TRUE
    ELSE IF Head(a) # Head(b) THEN Rank(Head(a)) < Rank(Head(b))
    ELSE Less(Tail(a), Tail(b))

\* strings.HasPrefix(s, prefix)
HasPrefix(s, prefix) ==
    /\ Len(prefix) <= Len(s)
    /\ SubSeq(s, 1, Len(prefix)) = prefix

\* strings.Contains(name, "$multiparts") || strings.Contains(name, "$tmpobject")
isReserved(name) ==
    \E i \in DOMAIN name : name[i] \in {"$multiparts", "$tmpobject"}

\* url.QueryUnescape: "+" becomes a space, "%" must start a %XX escape.  No
\* name of the model holds a well-formed escape, so a "%" is always an error.
HexTokens == {"a"}

badEscape(s) ==
    \E i \in DOMAIN s :
        /\ s[i] = "%"
        /\ ~(i + 2 <= Len(s) /\ s[i + 1] \in HexTokens /\ s[i + 2] \in HexTokens)

QueryUnescape(s) ==
    [err |-> badEscape(s),
     value |-> [i \in DOMAIN s |-> IF s[i] = "+" THEN " " ELSE s[i]]]

\* The names a bucket may hold.
ObjectNames ==
    {<<"$tmpobject", "/", "q">>, <<"a", "+", "q">>, <<"p", "/", "q">>,
     <<"p", "/", "r">>, <<"q", "$multiparts">>, <<"s">>}

\* filepath.Dir(prefix): the prefix up to its last "/", "" when it has none.
RECURSIVE Dir(_)
Dir(prefix) ==
    IF prefix = << >> THEN << >>
    ELSE IF prefix[Len(prefix)] = "/" THEN SubSeq(prefix, 1, Len(prefix) - 1)
    ELSE Dir(SubSeq(prefix, 1, Len(prefix) - 1))

\* isDirExist(bucketDir/prefixDir): some object lies under that directory.
prefixDirExists(keys, prefix) ==
    \/ Dir(prefix) = << >>
    \/ \E k \in keys : HasPrefix(k, Dir(prefix) \o <<"/">>)

(***************************************************************************)
(* The walker behind getObjectInfoChannel (line 123): a lazy stream of     *)
(* the entries under prefix that follow marker, in lexicographic order;    *)
(* every object when recursive, one level deep (a directory as one entry   *)
(* ending in "/") otherwise.  The stream of a walker is the sequence of    *)
(* entries it has yet to send; an empty stream is a closed channel.        *)
(***************************************************************************)
RECURSIVE SortNames(_)
SortNames(S) ==
    IF S = {} THEN << >>
    ELSE LET m == CHOOSE x \in S : \A y \in S \ {x} : Less(x, y)
         IN  <<m>> \o SortNames(S \ {m})

\* The entry name key k contributes one level below prefix.
levelName(k, prefix) ==
    LET slashes == {i \in Len(prefix) + 1 .. Len(k) : k[i] = "/"}
    IN  IF slashes = {} THEN k
        ELSE SubSeq(k, 1, CHOOSE i \in slashes : \A j \in slashes : i <= j)

entryNames(keys, prefix, recursive) ==
    {IF recursive THEN k ELSE levelName(k, prefix) : k \in {x \in keys : HasPrefix(x, prefix)}}

entryOf(name) ==
    [Name |-> name, IsDir |-> name[Len(name)] = "/", Err |-> FALSE]

ErrEntry == [Name |-> << >>, IsDir |-> FALSE, Err |-> TRUE]

treeWalk(keys, prefix, marker, recursive) ==
    LET names == SortNames({n \in entryNames(keys, prefix, recursive) : Less(marker, n)})
    IN  [i \in DOMAIN names |-> entryOf(names[i])]

\* What a directory read of a walker may do: succeed, fail and end the walk,
\* fail and let the walk go on with the entries that follow.
WalkErrors == {"none", "stops", "goesOn"}

\* A walker whose directory read fails sends one entry, then the error, and
\* then nothing more or the rest of its entries.
getObjectInfoChannel(keys, prefix, marker, recursive, ioErr) ==
    LET all == treeWalk(keys, prefix, marker, recursive)
        first == SubSeq(all, 1, Min(1, Len(all)))
    IN  IF ioErr = "none" THEN all
        ELSE IF ioErr = "stops" THEN first \o <<ErrEntry>>
        ELSE first \o <<ErrEntry>> \o SubSeq(all, 2, Len(all))

(***************************************************************************)
(* The continuation cache: a set of [params, walker] with at most one      *)
(* entry per params.  Pop removes and returns, Push replaces.              *)
(***************************************************************************)
ListObjectParams(bucket, delimiter, marker, prefix) ==
    [bucket |-> bucket, delimiter |-> delimiter, marker |-> marker, prefix |-> prefix]

cachedIn(map, params) == {e \in map : e.params = params}

cached(params) == cachedIn(listObjectMap, params)

popListObjectCh(params) ==
    IF cached(params) = {} THEN NoWalker
    ELSE (CHOOSE e \in cached(params) : TRUE).walker

\* A pop that returns the walker and leaves it registered.
afterPopKept(params) == listObjectMap

afterPop(params) == listObjectMap \ cached(params)

pushListObjectCh(map, params, walker) ==
    {e \in map : e.params # params} \cup {[params |-> params, walker |-> walker]}

listObjectsLimit == 1000

(***************************************************************************)
(* ListObjects, lines 43-124: validation, the maxKeys = 0 and missing      *)
(* prefix directory returns, then the walker: popped from the cache or     *)
(* created.  The call is made by a client that pages through a listing:    *)
(* its first call is free, every later one repeats the arguments with the  *)
(* last NextMarker as marker, but may ask for maxKeys = 0 or pass the      *)
(* delimiter ",".                                                          *)
(***************************************************************************)
MaxKeys == 2
MaxPages == 6

ValidBucketNames == {"bkt", "new"}
IsValidBucketName(bucket) == bucket \in ValidBucketNames

Prefixes == {<< >>, <<"p", "/">>}
Delimiters == {"", "/", ","}
MaxKeysChoices == {-1, 0, 1, MaxKeys, listObjectsLimit + 1}
FirstMarkers == {<< >>, <<"%">>, <<"a", "+", "q">>, <<"p", "/", "q">>}

\* Lines 47-85 without the test of the delimiter of lines 70-72.
validationErrorAnyDelimiter(bucket, prefixOK, prefix, marker, delimiter) ==
    IF ~IsValidBucketName(bucket) THEN "BucketNameInvalid"
    ELSE IF ~buckets[bucket].exists THEN "BucketNotFound"
    ELSE IF ~prefixOK THEN "ObjectNameInvalid"
    ELSE IF marker # << >> /\ QueryUnescape(marker).err THEN "unescape"
    ELSE IF marker # << >> /\ ~HasPrefix(QueryUnescape(marker).value, prefix)
         THEN "markerPrefix"
    ELSE ""

\* Lines 47-85: the error of the validation, "" when it passes.
validationError(bucket, prefixOK, prefix, marker, delimiter) ==
    IF ~IsValidBucketName(bucket) THEN "BucketNameInvalid"
    ELSE IF ~buckets[bucket].exists THEN "BucketNotFound"
    ELSE IF ~prefixOK THEN "ObjectNameInvalid"
    ELSE IF delimiter # "" /\ delimiter # "/" THEN "delimiter"
    ELSE IF marker # << >> /\ QueryUnescape(marker).err THEN "unescape"
    ELSE IF marker # << >> /\ ~HasPrefix(QueryUnescape(marker).value, prefix)
         THEN "markerPrefix"
    ELSE ""

\* Lines 75-77: the marker ListObjects works with.
unescapedMarker(marker) ==
    IF marker # << >> THEN QueryUnescape(marker).value ELSE marker

\* Lines 93-95 left out: maxKeys is used as it was passed.
clampMaxKeysNot(maxKeys) == maxKeys

\* Lines 93-95.
clampMaxKeys(maxKeys) ==
    IF maxKeys < 0 \/ maxKeys > listObjectsLimit THEN listObjectsLimit ELSE maxKeys

\* Lines 88-90.
returnsEmptyNever(maxKeys) == FALSE
returnsEmpty(maxKeys) == maxKeys = 0

\* The client's record of a call that returned.
pgAfter(page, result) ==
    [page EXCEPT !.marker = result.NextMarker,
                 !.Objects = @ \o result.Objects,
                 !.Prefixes = @ \o result.Prefixes,
                 !.done = ~result.IsTruncated \/ result.err # ""]

ListObjectsCall(bucket, prefixOK, prefix, marker, delimiter, maxKeys, ioErr) ==
    /\ ls.pc # "loop"
    /\ ~pg.done
    /\ pg.pages < MaxPages
    /\ pg.pages > 0 =>
          /\ bucket = pg.bucket /\ prefix = pg.prefix
          /\ delimiter \in {pg.delimiter, ","}
          /\ maxKeys \in {pg.maxKeys, 0} /\ marker = pg.marker /\ prefixOK
    /\ LET err == validationError(bucket, prefixOK, prefix, marker, delimiter)
           m == unescapedMarker(marker)
           params == ListObjectParams(bucket, delimiter, m, prefix)
           popped == popListObjectCh(params)
           called == [LsIdle EXCEPT !.bucket = bucket, !.prefix = prefix, !.marker = m,
                                    !.delimiter = delimiter, !.maxKeys = maxKeys,
                                    !.prefixOK = prefixOK]
           page == IF pg.pages = 0
                   THEN [PgNone EXCEPT !.pages = 1, !.bucket = bucket, !.prefix = prefix,
                                       !.delimiter = delimiter, !.maxKeys = maxKeys,
                                       !.first = marker]
                   ELSE [pg EXCEPT !.pages = @ + 1, !.maxKeys = maxKeys,
                                   !.delimiter = delimiter]
       IN  IF err # ""
           THEN /\ ls' = [called EXCEPT !.pc = "returned", !.result.err = err]
                /\ pg' = pgAfter(page, [NoResult EXCEPT !.err = err])
                /\ UNCHANGED listObjectMap
           ELSE IF returnsEmpty(maxKeys) \/ ~prefixDirExists(buckets[bucket].keys, prefix)
           THEN /\ ls' = [called EXCEPT !.pc = "returned"]
                /\ pg' = pgAfter(page, NoResult)
                /\ UNCHANGED listObjectMap
           ELSE /\ ls' = [called EXCEPT
                            !.pc = "loop",
                            !.maxKeys = clampMaxKeys(maxKeys),
                            !.popped = popped.id # 0,
                            !.walker =
                                IF popped.id # 0 THEN popped
                                ELSE [id |-> page.pages,
                                      ch |-> getObjectInfoChannel(buckets[bucket].keys,
                                                 prefix, m, delimiter # "/", ioErr)]]
                /\ pg' = [page EXCEPT !.walkerErr = @ \/ (popped.id = 0 /\ ioErr # "none")]
                /\ listObjectMap' = afterPop(params)
    /\ UNCHANGED <<buckets, put, calls>>
    /\ UNCHANGED <<xlVars, nsVars>>

(***************************************************************************)
(* Lines 126-152: the receive loop.  exit is "closed" (line 131), "err"    *)
(* (line 134) or "full" (the loop condition fails); a reserved name is     *)
(* skipped before i is counted (lines 137-139).                            *)
(***************************************************************************)
skipsReservedNot(name) == FALSE
skipsReserved(name) == isReserved(name)

RECURSIVE receiveLoop(_, _, _, _, _)
receiveLoop(ch, i, maxKeys, result, nextMarker) ==
    IF ~(i < maxKeys)
    THEN [exit |-> "full", ch |-> ch, result |-> result, nextMarker |-> nextMarker]
    ELSE IF ch = << >>
    THEN [exit |-> "closed", ch |-> ch, result |-> result, nextMarker |-> nextMarker]
    ELSE IF Head(ch).Err
    THEN [exit |-> "err", ch |-> Tail(ch), result |-> [NoResult EXCEPT !.err = "walker"],
          nextMarker |-> nextMarker]
    ELSE IF skipsReserved(Head(ch).Name)
    THEN receiveLoop(Tail(ch), i, maxKeys, result, nextMarker)
    ELSE receiveLoop(Tail(ch), i + 1, maxKeys,
                     IF Head(ch).IsDir
                     THEN [result EXCEPT !.Prefixes = Append(@, Head(ch).Name)]
                     ELSE [result EXCEPT !.Objects = Append(@, Head(ch).Name)],
                     Head(ch).Name)

ListObjectsLoop ==
    /\ ls.pc = "loop"
    /\ LET l == receiveLoop(ls.walker.ch, 0, ls.maxKeys, NoResult, << >>)
           walker == [ls.walker EXCEPT !.ch = l.ch]
           result == IF l.exit = "full"
                     THEN [l.result EXCEPT !.IsTruncated = TRUE,
                                           !.NextMarker = l.nextMarker]
                     ELSE l.result
       IN  /\ ls' = [ls EXCEPT !.pc = "returned", !.walker = walker, !.result = result]
           /\ pg' = [pgAfter(pg, result) EXCEPT !.last = walker]
           /\ listObjectMap' =
                IF l.exit = "full"
                THEN pushListObjectCh(listObjectMap,
                        ListObjectParams(ls.bucket, ls.delimiter, l.nextMarker, ls.prefix),
                        walker)
                ELSE listObjectMap
    /\ UNCHANGED <<buckets, put, calls, resp>>
    /\ UNCHANGED <<xlVars, nsVars>>

\* The TTL of a parked walker runs out: the cache drops and closes it.
ExpireListObjectCh ==
    /\ \E e \in listObjectMap : listObjectMap' = listObjectMap \ {e}
    /\ UNCHANGED <<buckets, ls, pg, put, calls, resp>>
    /\ UNCHANGED <<xlVars, nsVars>>

\* One bucket with any set of objects, one name free, an empty cache.
InitList ==
    /\ XLNone
    /\ \E keys \in SUBSET ObjectNames :
          buckets = [b \in BucketNames |->
                        IF b = "bkt"
                        THEN [exists |-> TRUE, acl |-> "private", keys |-> keys]
                        ELSE NoBucket]
    /\ listObjectMap = {}
    /\ ls = LsIdle
    /\ pg = PgNone
    /\ put = PutNone
    /\ calls = CallsNone
    /\ resp = RespNone
    /\ NsNone

\* The first call of the client, and its later ones.
FirstCall ==
    /\ pg.pages = 0
    /\ \E bucket \in BucketNames, prefixOK \in BOOLEAN, ioErr \in WalkErrors,
          prefix \in Prefixes,
          marker \in FirstMarkers, delimiter \in Delimiters,
          maxKeys \in MaxKeysChoices :
            ListObjectsCall(bucket, prefixOK, prefix, marker, delimiter, maxKeys, ioErr)
    /\ UNCHANGED resp

LaterCall ==
    /\ pg.pages > 0 /\ ~pg.done /\ ls.pc # "loop"
    /\ \E ioErr \in WalkErrors, delimiter \in {pg.delimiter, ","},
          maxKeys \in {pg.maxKeys, 0} :
            ListObjectsCall(pg.bucket, TRUE, pg.prefix, pg.marker, delimiter, maxKeys,
                            ioErr)
    /\ UNCHANGED resp

NextList ==
    \/ FirstCall
    \/ LaterCall
    \/ ListObjectsLoop
    \/ ExpireListObjectCh

SpecList == InitList /\ [][NextList]_vars

(***************************************************************************)
(* Listing claims.                                                         *)
(***************************************************************************)
\* One unbounded listing: a call with no marker and maxKeys < 0 (clamped to
\* listObjectsLimit, line 93) on a fresh walker.
fullListing(keys, prefix, delimiter) ==
    IF ~prefixDirExists(keys, prefix) THEN NoResult
    ELSE receiveLoop(treeWalk(keys, prefix, << >>, delimiter # "/"), 0,
                     clampMaxKeys(-1), NoResult, << >>).result

\* The client pages with maxKeys = mk from the start of a listing of "bkt" with
\* valid arguments, and its last call has returned; no directory read failed.
Paging(mk) ==
    /\ pg.pages > 0 /\ pg.bucket = "bkt" /\ pg.delimiter \in {"", "/"}
    /\ pg.first = << >> /\ pg.maxKeys = mk /\ ~pg.walkerErr
    /\ ls.pc = "returned" /\ ls.result.err # "ObjectNameInvalid"

PagesAreListing ==
    LET f == fullListing(buckets["bkt"].keys, pg.prefix, pg.delimiter)
    IN  /\ ls.result.err = ""
        /\ IsPrefix(pg.Objects, f.Objects) /\ IsPrefix(pg.Prefixes, f.Prefixes)
        /\ pg.done => (pg.Objects = f.Objects /\ pg.Prefixes = f.Prefixes)
        /\ pg.pages = MaxPages => pg.done

\* C15: paging with maxKeys = 1, each marker the previous NextMarker, returns the
\* entries of one unbounded listing: at every page what was received so far is a
\* prefix of that listing, in order and without duplicates, and is the whole
\* listing once IsTruncated is false.
C15_PagesAreListing == Paging(1) => PagesAreListing

\* Without a "+" in any name the pages are the listing (the marker survives
\* the unescaping of line 76).
NoEscapedName == \A k \in buckets["bkt"].keys : \A i \in DOMAIN k : k[i] # "+"

PagesAreListingUnescaped == (Paging(1) /\ NoEscapedName) => PagesAreListing

\* The entries of a stream that the loop may place in a result.
listable(ch) == {i \in DOMAIN ch : ~ch[i].Err /\ ~isReserved(ch[i].Name)}

resultNames(result) ==
    {result.Objects[i] : i \in DOMAIN result.Objects}
        \cup {result.Prefixes[i] : i \in DOMAIN result.Prefixes}

resultLen(result) == Len(result.Objects) + Len(result.Prefixes)

\* C16: no result holds a name containing "$multiparts" or "$tmpobject", in
\* Objects, in Prefixes or as NextMarker, and a page that ends without error
\* holds as many entries as maxKeys allows of the non-reserved entries the
\* walker still had: the reserved names it passed over were not counted.
C16_ReservedNamesSkipped ==
    /\ [](/\ \A name \in resultNames(ls.result) \cup resultNames(pg) : ~isReserved(name)
          /\ ~isReserved(ls.result.NextMarker))
    /\ [][(ls.pc = "loop" /\ ls'.pc = "returned" /\ ls'.result.err = "") =>
              resultLen(ls'.result) =
                  Min(ls.maxKeys, Cardinality(listable(ls.walker.ch)))]_vars

\* A page of one entry, s, returned by a parked walker that had to pass over
\* q$multiparts to reach it.
C16_Witness ==
    /\ ls.pc = "returned" /\ ls.popped /\ ls.maxKeys = 1
    /\ ls.result.Objects = <<<<"s">>>>
    /\ pg.Objects = <<<<"p", "/", "r">>, <<"s">>>>
    /\ <<"q", "$multiparts">> \in buckets["bkt"].keys

\* C17: a ListObjects call with maxKeys = 0 that passes validation returns at
\* once with empty Objects and Prefixes, IsTruncated false and no error; it
\* holds no walker (none popped, none created) and the continuation cache is
\* as it was (none popped, none pushed).
C17_ZeroMaxKeys ==
    [][(pg'.pages = pg.pages + 1 /\ ls'.maxKeys = 0 /\ ls'.result.err = "") =>
          /\ ls'.pc = "returned"
          /\ ls'.result = NoResult
          /\ ls'.walker = NoWalker /\ ~ls'.popped
          /\ listObjectMap' = listObjectMap]_vars

\* A call with maxKeys = 0 has returned while the cache holds a walker parked
\* under the very parameters of the call.
C17_Witness ==
    /\ ls.pc = "returned" /\ ls.maxKeys = 0 /\ ls.result = NoResult
    /\ pg.pages > 1
    /\ cached(ListObjectParams(ls.bucket, ls.delimiter, ls.marker, ls.prefix)) # {}

\* C18: a page is reported truncated only when the walker still has an entry
\* to list after it: the page that returns the last listable entry has
\* IsTruncated = false.
C18_TruncatedOnlyIfMore ==
    (ls.pc = "returned" /\ ls.result.IsTruncated /\ ~pg.walkerErr) =>
        listable(ls.walker.ch) # {}

\* The pages of keys p/q, p/r, s with delimiter "/" and maxKeys = 1, as the code
\* returns them: [p/] truncated, then [s] truncated too, then an empty page.
ExamplePages ==
    (/\ Paging(1) /\ pg.prefix = << >> /\ pg.delimiter = "/"
     /\ buckets["bkt"].keys = {<<"p", "/", "q">>, <<"p", "/", "r">>, <<"s">>}) =>
        /\ pg.pages = 1 =>
              ls.result = [NoResult EXCEPT !.Prefixes = <<<<"p", "/">>>>,
                                           !.NextMarker = <<"p", "/">>,
                                           !.IsTruncated = TRUE]
        /\ pg.pages = 2 =>
              ls.result = [NoResult EXCEPT !.Objects = <<<<"s">>>>,
                                           !.NextMarker = <<"s">>,
                                           !.IsTruncated = TRUE]
        /\ pg.pages > 2 => (pg.pages = 3 /\ ls.result = NoResult)

\* The name of the entry placed last in a result that holds one: entries are
\* placed in ascending order.
lastName(result) ==
    CHOOSE n \in resultNames(result) : \A m \in resultNames(result) : m = n \/ Less(m, n)

\* The receive loop returns a truncated page: NextMarker is the last entry
\* placed and the walker is parked under (bucket, delimiter, NextMarker, prefix).
TruncatedPageParked ==
    (ls.pc = "loop" /\ ls'.pc = "returned" /\ ls'.result.IsTruncated) =>
        /\ resultNames(ls'.result) # {}
        /\ ls'.result.NextMarker = lastName(ls'.result)
        /\ cachedIn(listObjectMap', ListObjectParams(ls.bucket, ls.delimiter,
                                                     ls'.result.NextMarker, ls.prefix))
             = {[params |-> ListObjectParams(ls.bucket, ls.delimiter,
                                             ls'.result.NextMarker, ls.prefix),
                 walker |-> ls'.walker]}

\* The client calls again with marker = NextMarker, maxKeys > 0, while the
\* walker of the last page is still parked.
NextCall ==
    /\ ls.pc = "returned" /\ ls.result.IsTruncated /\ ~pg.walkerErr
    /\ cached(ListObjectParams(ls.bucket, ls.delimiter, ls.result.NextMarker, ls.prefix)) # {}
    /\ pg'.pages = pg.pages + 1 /\ ls'.maxKeys # 0

\* The call holds the walker of the last page, which stands right after
\* NextMarker.
PopsParkedWalker ==
    /\ ls'.pc = "loop" /\ ls'.popped
    /\ ls'.walker = pg.last
    /\ ls'.walker.ch = treeWalk(buckets[ls.bucket].keys, ls.prefix, ls.result.NextMarker,
                                ls.delimiter # "/")

\* C19: a truncated page carries the last entry placed as NextMarker and parks
\* its walker under (bucket, delimiter, NextMarker, prefix); the next call with
\* marker = NextMarker pops that walker and continues with the entry that
\* follows NextMarker.
C19_NextMarkerContinues ==
    [][TruncatedPageParked /\ (NextCall => PopsParkedWalker)]_vars

\* The part of C19 that ends with the push of line 151.
TruncatedPagesParked == [][TruncatedPageParked]_vars

\* The pop finds the walker when the unescaping of line 76 leaves NextMarker as
\* it is.
NextCallPopsUnescaped ==
    [][(NextCall /\ QueryUnescape(ls.result.NextMarker).value = ls.result.NextMarker)
          => PopsParkedWalker]_vars

(***************************************************************************)
(* CloudStorageAPI.PutBucketHandler (src/bucket-handlers.go, lines         *)
(* 170-244).  What the handler reads from the request is an input: whether *)
(* the server is anonymous, whether the request needs the ACL check, the   *)
(* x-amz-acl type, signature V4 and its initialisation, the body, its      *)
(* Content-Length, the read of the body and the signature match.           *)
(***************************************************************************)
MaxRequests == 3

ACLTypes == {"private", "public-read", "unsupported"}

\* Filesystem.MakeBucket: the error it returns, "" when it creates the bucket.
MakeBucketError(bucket, ioErr) ==
    IF ~IsValidBucketName(bucket) THEN "BucketNameInvalid"
    ELSE IF buckets[bucket].exists THEN "BucketExists"
    ELSE IF ioErr THEN "io"
    ELSE ""

MakeBucket(bucket, acl, ioErr) ==
    IF MakeBucketError(bucket, ioErr) = ""
    THEN [buckets EXCEPT ![bucket] = [exists |-> TRUE, acl |-> acl, keys |-> {}]]
    ELSE buckets

\* Lines 231-238: the error response for an error of MakeBucket.
putBucketErrorDefault(err) == "InternalError"
putBucketError(err) ==
    IF err = "BucketNameInvalid" THEN "InvalidBucketName"
    ELSE IF err = "BucketExists" THEN "BucketAlreadyExists"
    ELSE putBucketErrorDefault(err)

\* What the handler finds in the request: the signature (none, one whose
\* initialisation fails, a V4 signature), the body (none, one without
\* Content-Length, one with it) and the outcome of DoesSignatureMatch.
Signatures == {"none", "initErr", "v4"}
Bodies == {"nil", "noLength", "length"}
Matches == {"err", "mismatch", "match"}

\* Lines 174-226: the error response of the checks made before MakeBucket,
\* "" when the request passes them.  The signature is matched only when the
\* read of the body failed (line 213).
putBucketRefusal(anonymous, aclCheck, aclType, sig, body, readErr, match) ==
    IF ~anonymous /\ aclCheck THEN "AccessDenied"
    ELSE IF aclType = "unsupported" THEN "NotImplemented"
    ELSE IF ~anonymous /\ sig = "initErr" THEN "InternalError"
    ELSE IF body = "noLength" THEN "MissingContentLength"
    ELSE IF body = "length" /\ ~anonymous /\ sig = "v4" /\ readErr /\ match = "err"
         THEN "InternalError"
    ELSE IF body = "length" /\ ~anonymous /\ sig = "v4" /\ readErr /\ match = "mismatch"
         THEN "SignatureDoesNotMatch"
    ELSE ""

PutBucketHandler(bucket, anonymous, aclCheck, aclType, sig, body, readErr, match, ioErr) ==
    /\ put.n < MaxRequests
    /\ LET refusal == putBucketRefusal(anonymous, aclCheck, aclType, sig, body, readErr,
                                       match)
           err == MakeBucketError(bucket, ioErr)
           answered == [PutNone EXCEPT !.n = put.n + 1, !.bucket = bucket]
           handled == [RespNone EXCEPT !.n = resp.n + 1, !.handler = "PutBucket",
                                       !.bucket = bucket,
                                       !.aclRequired = ~anonymous /\ aclCheck,
                                       !.written = 1]
       IN  IF refusal # ""
           THEN /\ put' = [answered EXCEPT !.status = refusal]
                /\ resp' = [handled EXCEPT !.status = refusal]
                /\ UNCHANGED buckets
           ELSE /\ buckets' = MakeBucket(bucket, aclType, ioErr)
                /\ put' = IF err # ""
                          THEN [answered EXCEPT !.made = TRUE, !.ioErr = ioErr,
                                                !.status = putBucketError(err)]
                          ELSE [answered EXCEPT !.made = TRUE, !.ioErr = ioErr,
                                                !.status = "OK",
                                                !.Location = <<"/", bucket>>]
                /\ resp' = [handled EXCEPT
                                !.status = IF err # "" THEN putBucketError(err) ELSE "OK",
                                !.fsCalls = <<"MakeBucket">>]
    /\ UNCHANGED <<listObjectMap, ls, pg, calls>>
    /\ UNCHANGED <<xlVars, nsVars>>

\* One bucket, empty or holding an object, and the other names free.
InitPut ==
    /\ XLNone
    /\ \E keys \in SUBSET {<<"s">>}, acl \in ACLTypes \ {"unsupported"} :
          buckets = [b \in BucketNames |->
                        IF b = "bkt"
                        THEN [exists |-> TRUE, acl |-> acl, keys |-> keys]
                        ELSE NoBucket]
    /\ listObjectMap = {}
    /\ ls = LsIdle
    /\ pg = PgNone
    /\ put = PutNone
    /\ calls = CallsNone
    /\ resp = RespNone
    /\ NsNone

NextPut ==
    \E bucket \in BucketNames, aclType \in ACLTypes, sig \in Signatures,
       body \in Bodies, match \in Matches, anonymous, aclCheck, readErr, ioErr \in BOOLEAN :
        PutBucketHandler(bucket, anonymous, aclCheck, aclType, sig, body, readErr, match,
                         ioErr)

SpecPut == InitPut /\ [][NextPut]_vars

\* A PutBucket request is answered.
PutBucketAnswered == put'.n = put.n + 1

\* The answer to a request for an existing bucket, and to one for a valid name
\* that is free.
AnsweredAlreadyExists ==
    buckets[put'.bucket].exists =>
        (put'.status = "BucketAlreadyExists" /\ buckets' = buckets)

AnsweredCreated ==
    (IsValidBucketName(put'.bucket) /\ ~buckets[put'.bucket].exists) =>
        /\ put'.status = "OK" /\ put'.Location = <<"/", put'.bucket>>
        /\ buckets'[put'.bucket].exists /\ buckets'[put'.bucket].keys = {}
        /\ \A b \in BucketNames \ {put'.bucket} : buckets'[b] = buckets[b]

\* C20 as stated: every PutBucket request for an existing bucket is answered
\* BucketAlreadyExists and changes no bucket, and every PutBucket request for a
\* valid free name succeeds with Location "/" + bucket.
C20_PutBucketAnyRequest ==
    [][PutBucketAnswered => (AnsweredAlreadyExists /\ AnsweredCreated)]_vars

\* C20: a PutBucket request that reaches MakeBucket (line 228) is answered
\* BucketAlreadyExists for an existing bucket, changing no bucket, and, for a
\* valid free name and no storage error, succeeds with Location "/" + bucket
\* and creates the bucket; a request refused before line 228 changes no bucket.
C20_PutBucket ==
    [][PutBucketAnswered =>
          /\ (put'.made /\ ~put'.ioErr) => (AnsweredAlreadyExists /\ AnsweredCreated)
          /\ put'.made => AnsweredAlreadyExists
          /\ ~put'.made => (buckets' = buckets /\ put'.status \notin {"OK", "BucketAlreadyExists"})]_vars

\* PUT /new answered OK, then PUT /new again answered BucketAlreadyExists.
C20_Witness ==
    /\ put.n = 2 /\ put.bucket = "new" /\ put.made
    /\ put.status = "BucketAlreadyExists"
    /\ buckets["new"] = [exists |-> TRUE, acl |-> "public-read", keys |-> {}]

(***************************************************************************)
(* The namespace lock table on its own: tasks lock and unlock keys in      *)
(* either mode, a bounded number of times each.                            *)
(***************************************************************************)
InitLock ==
    /\ XLNone
    /\ FsNone
    /\ NsNone

NextLock ==
    \/ \E t \in Tasks, k \in Keys, readLock \in BOOLEAN : NSLockPin(t, k, readLock)
    \/ \E t \in Tasks : NSLockAcquire(t)
    \/ \E t \in Tasks : NSUnlock(t)

SpecLock == InitLock /\ [][NextLock]_vars

\* The tasks that hold key k in the given mode, and those that wait for it.
Holders(k, readLock) ==
    {t \in Tasks : tasks[t].pc = "holding" /\ tasks[t].key = k /\ tasks[t].readLock = readLock}

Waiters(k) == {t \in Tasks : tasks[t].pc = "waiting" /\ tasks[t].key = k}

\* C21: for every key, no holder, or shared holders only, or exactly one
\* exclusive holder and nobody else; and a task waiting for a key is let in
\* as soon as the holders of that key allow it, whatever is held on the other
\* keys.
C21_SharedOrExclusive ==
    /\ \A k \in Keys :
          /\ Cardinality(Holders(k, FALSE)) <= 1
          /\ Holders(k, FALSE) # {} => Holders(k, TRUE) = {}
    /\ \A t \in Tasks :
          (/\ tasks[t].pc = "waiting"
           /\ Holders(tasks[t].key, FALSE) = {}
           /\ tasks[t].readLock \/ Holders(tasks[t].key, TRUE) = {})
              => ENABLED NSLockAcquire(t)

\* Two tasks share one key while the third holds the other key exclusively
\* and is waited for by nobody.
C21_Witness ==
    /\ Cardinality(Holders(<<"vol", "a">>, TRUE)) = 2
    /\ Cardinality(Holders(<<"vol", "b">>, FALSE)) = 1

\* The pin count of key k: the tasks holding it or waiting for it.
Pins(k) == Cardinality(Holders(k, TRUE) \cup Holders(k, FALSE) \cup Waiters(k))

\* C22: the table has an entry for a key exactly when the key's pin count is
\* above zero, the entry's count is the number of tasks holding or waiting
\* for the key, and an entry leaves the table only by the unlockNS of the last
\* task pinned on it.
C22_EntryIffPinned ==
    /\ [](\A k \in Keys :
            /\ nsLockMap[k].present <=> Pins(k) > 0
            /\ nsLockMap[k].ref = Pins(k))
    /\ [][\A k \in Keys :
            (nsLockMap[k].present /\ ~nsLockMap'[k].present) =>
                /\ nsLockMap[k].ref = 1
                /\ \E t \in Tasks :
                      /\ tasks[t].pc = "holding" /\ tasks[t].key = k
                      /\ tasks'[t].pc = "idle"]_vars

\* Every task has made all its calls and unlocked again: the entries made on
\* the way are all gone.
C22_Witness ==
    /\ \A t \in Tasks : tasks[t].pc = "idle" /\ tasks[t].calls = MaxLocks
    /\ \A k \in Keys : ~nsLockMap[k].present

(***************************************************************************)
(* Claims on the steps of ReadFile and of its producer.                    *)
(***************************************************************************)
\* C23: a ReadFile call with an invalid volume or an invalid path has returned
\* errInvalidArgument and no stream, and has taken no namespace lock, read no
\* metadata, opened no shard and started no producer.
C23_InvalidArgument ==
    (rd.pc # "idle" /\ ~ValidCall) =>
        /\ rd.pc = "returned" /\ rd.result = "errInvalidArgument"
        /\ nsLock.locked = 0 /\ nsLock.readers = 0
        /\ rd.versions = << >> /\ rd.quorumDisks = << >>
        /\ readers = << >>
        /\ prod = ProdNone /\ pipe = PipeNone

\* The call with a valid volume and an invalid path on a committed object.
C23_Witness ==
    /\ rd.pc = "returned" /\ rd.volOK /\ ~rd.pathOK
    /\ rd.result = "errInvalidArgument"
    /\ committed.ver > 0

\* The quorum disks whose part file does not open, once ReadFile is through
\* the loop of lines 624-641.
FailedOpens ==
    {k \in DOMAIN rd.quorumDisks :
        ~canOpenPart(rd.quorumDisks[k].disk, rd.quorumDisks[k].index, rd.transport)}

OpensDone ==
    \/ rd.pc \in {"pipe", "spawned"}
    \/ rd.pc = "returned" /\ rd.result \in {"stream", "panic", "errOpen"}

\* C24: with no more than |quorum| - readQuorum failed opens ReadFile goes on
\* with a reader for every part that opened, at least readQuorum of them; with
\* more it returns the open error, no stream, and starts no producer.
C24_OpenFailuresTolerated ==
    OpensDone =>
        IF Cardinality(FailedOpens) <= Len(rd.quorumDisks) - readQuorum
        THEN /\ rd.result \in {"none", "stream"}
             /\ Len(readers) = Len(rd.quorumDisks) - Cardinality(FailedOpens)
             /\ Len(readers) >= readQuorum
        ELSE /\ rd.pc = "returned" /\ rd.result = "errOpen"
             /\ prod = ProdNone /\ pipe = PipeNone

\* What the loop does instead: the first part that opens ends ReadFile in the
\* panic of line 639, whatever the number of failed opens; the open error is
\* returned only when the failures come first.
OpensEndInPanic ==
    OpensDone =>
        /\ rd.result \in {"panic", "errOpen"} /\ prod = ProdNone
        /\ Cardinality(FailedOpens) <= Len(rd.quorumDisks) - readQuorum =>
              (rd.result = "panic" /\ Len(readers) = 1)

\* The producer reads one block: an iteration of the loop of line 648 begins.
BlockRead ==
    /\ prod.pc = "loop" /\ loopContinues(prod.totalLeft)
    /\ prod'.pc # "loop"

encShardLen == getEncodedBlockLen(curBlockSizeOf(prod.totalLeft), DataBlocks)

\* The bytes reader i can still deliver.
Available(i) == Max(Len(parts[readers[i].disk].data) - readers[i].pos, 0)

\* Every shard of the block is read, whatever the reads of the others gave.
AllShardsRead ==
    \A j \in DOMAIN readers :
        readers'[j].pos =
            IF readers[j].ioerr THEN readers[j].pos
            ELSE readers[j].pos + Min(Available(j), encShardLen)

\* C25: when the read of a block's shard from reader i gives fewer than
\* encShardLen bytes or fails, enBlocks[i] is nil for that block, and the
\* shards of the other readers are read all the same.
C25_ShortReadIsMissingShard ==
    [][BlockRead =>
          /\ \A i \in DOMAIN readers :
                (readers[i].ioerr \/ Available(i) < encShardLen) =>
                    readBlocks(encShardLen)[i] = Nil
          /\ AllShardsRead]_vars

\* What lines 668-671 do: enBlocks[i] is nil after a failed read or a read of
\* no byte at all; a read of some but not all bytes (io.ErrUnexpectedEOF) keeps
\* the buffer, the missing bytes zero.
ShortReadKeepsBuffer ==
    [][BlockRead =>
          /\ \A i \in DOMAIN readers :
                LET blk == readBlocks(encShardLen)[i]
                IN  /\ (readers[i].ioerr \/ Available(i) = 0) => blk = Nil
                    /\ (~readers[i].ioerr /\ 0 < Available(i)
                                          /\ Available(i) < encShardLen) =>
                          /\ blk.present /\ Len(blk.data) = encShardLen
                          /\ \A k \in Available(i) + 1 .. encShardLen : blk.data[k] = 0
          /\ AllShardsRead]_vars

\* Every entry of the enBlocks the iteration is about to read is nil or of
\* length zero.
AllEntriesEmpty ==
    \A i \in 1 .. totalBlocks :
        \/ readBlocks(encShardLen)[i] = Nil
        \/ Len(readBlocks(encShardLen)[i].data) = 0

\* C26: a producer iteration whose enBlocks entries are all nil or of length
\* zero closes the pipe with the data-corrupted error, writes nothing and
\* exits; after that error the pipe gets no further byte and the producer
\* takes no further step.
C26_AllZeroFailsStream ==
    [][/\ (BlockRead /\ AllEntriesEmpty) =>
             /\ pipe'.werr = "allZero"
             /\ pipe'.delivered = pipe.delivered
             /\ prod'.pc = "exit"
       /\ pipe.werr = "allZero" =>
             /\ pipe'.werr = "allZero"
             /\ pipe'.delivered = pipe.delivered
             /\ prod' = prod]_vars

\* The producer found a block with no shard bytes at all and gave up.
C26_Witness ==
    /\ pipe.werr = "allZero"
    /\ prod.pc = "exit"
    /\ prod.totalLeft > 0

\* The enBlocks the iteration is about to read.
enBlocksRead == readBlocks(encShardLen)

\* C27: bytes go into the pipe only from a block whose shards verified, at
\* the first verify or at the one after a successful reconstruct; a failed
\* reconstruct and a failed second verify close the pipe with their error
\* and nothing of the block is written; Reconstruct is called at most once
\* per block, and only after the first verify returned false.
C27_JoinOnlyVerified ==
    [][/\ prod'.pc = "join" => Verify(prod'.block)
       /\ pipe'.delivered # pipe.delivered =>
             /\ prod.pc = "join"
             /\ Verify(prod.block)
       /\ (BlockRead /\ prod'.pc = "join") =>
             \/ Verify(enBlocksRead) /\ prod'.block = enBlocksRead
             \/ /\ ~Verify(enBlocksRead)
                /\ ~ReconstructFails(enBlocksRead)
                /\ prod'.block = Reconstruct(enBlocksRead)
       /\ (BlockRead /\ ~AllEntriesEmpty /\ ~Verify(enBlocksRead)
              /\ ReconstructFails(enBlocksRead)) =>
             /\ pipe'.werr = "reconstruct"
             /\ pipe'.delivered = pipe.delivered
             /\ prod'.pc = "exit"
       /\ (BlockRead /\ ~AllEntriesEmpty /\ ~Verify(enBlocksRead)
              /\ ~ReconstructFails(enBlocksRead)
              /\ ~Verify(Reconstruct(enBlocksRead))) =>
             /\ pipe'.werr = "verifyAfterReconstruct"
             /\ pipe'.delivered = pipe.delivered
             /\ prod'.pc = "exit"
       /\ BlockRead =>
             /\ reconstructCalls(enBlocksRead) <= 1
             /\ reconstructCalls(enBlocksRead) = 1 => ~Verify(enBlocksRead)]_vars

\* Bytes of a block that was read with a shard missing and reconstructed are
\* in the pipe.
C27_Witness ==
    /\ prod.pc = "join"
    /\ Len(readers) < totalBlocks
    /\ Verify(prod.block)
    /\ Len(pipe.delivered) > 0

\* A block with a corrupted shard was given up after the second verify.
C27_WitnessFailed ==
    /\ pipe.werr = "verifyAfterReconstruct"
    /\ prod.pc = "exit"

\* ceil(a / b) for a >= 0, b > 0.
CeilDiv(a, b) == (a + b - 1) \div b

\* The iterations of the loop of line 648 that have reached line 720: every
\* one of them took erasureBlockSize off totalLeft.
iterationsDone == (rd.fileSize - prod.totalLeft) \div erasureBlockSize

\* The curBlockSize values the loop of line 648 goes through from totalLeft.
RECURSIVE curBlockSizes(_)
curBlockSizes(totalLeft) ==
    IF ~loopContinues(totalLeft) THEN << >>
    ELSE <<curBlockSizeOf(totalLeft)>> \o curBlockSizes(totalLeftAfter(totalLeft))

RECURSIVE SumSeq(_)
SumSeq(s) == IF s = << >> THEN 0 ELSE Head(s) + SumSeq(Tail(s))

\* The loop of line 648 at work: totalLeft is the size less whole blocks; the
\* block in Join is the next one in offset order, of min(B, left) bytes, and
\* what it has written so far follows the bytes of the blocks before it.
LoopInOrder ==
    prod.pc \in {"loop", "join", "exit"} =>
        /\ (rd.fileSize - prod.totalLeft) % erasureBlockSize = 0
        /\ iterationsDone \in 0 .. CeilDiv(rd.fileSize, erasureBlockSize)
        /\ Len(curBlockSizes(rd.fileSize)) = CeilDiv(rd.fileSize, erasureBlockSize)
        /\ SumSeq(curBlockSizes(rd.fileSize)) = rd.fileSize
        /\ prod.pc = "join" =>
              LET cur == curBlockSizes(rd.fileSize)[iterationsDone + 1]
              IN  /\ cur = Min(erasureBlockSize, prod.totalLeft)
                  /\ cur = Min(erasureBlockSize,
                               rd.fileSize - iterationsDone * erasureBlockSize)
                  /\ prod.left \in 1 .. cur
                  /\ Len(pipe.delivered) =
                        iterationsDone * erasureBlockSize + (cur - prod.left)
        /\ prod.pc = "loop" =>
              Len(pipe.delivered) = Min(iterationsDone * erasureBlockSize, rd.fileSize)
        /\ pipe.werr = "eof" =>
              /\ iterationsDone = CeilDiv(rd.fileSize, erasureBlockSize)
              /\ Len(pipe.delivered) = rd.fileSize

\* C28: for T bytes to produce and block size B the producer loop makes
\* ceil(T / B) iterations and no more, iteration k uses curBlockSize =
\* min(B, T - k * B), the blocks are joined in increasing offset order, and
\* the curBlockSize values add up to T, although totalLeft goes down by B on
\* the last, shorter block too.
C28_LoopIterations ==
    /\ []LoopInOrder
    /\ [][BlockRead => iterationsDone < CeilDiv(rd.fileSize, erasureBlockSize)]_vars

\* A stream of several blocks, the last shorter than the others, ended cleanly:
\* totalLeft went below zero.
C28_Witness ==
    /\ pipe.werr = "eof"
    /\ rd.fileSize > erasureBlockSize
    /\ rd.fileSize % erasureBlockSize # 0
    /\ iterationsDone = CeilDiv(rd.fileSize, erasureBlockSize)
    /\ prod.totalLeft < 0

\* What an independent probe makes of the backends.
IndependentVersions == [d \in storageDisks |-> VersionOn(d)]

\* The backends probed before d whose file.json has a file.version.
EarlierWithVersion(d) ==
    {e \in storageDisks : e < d /\ meta[e].ok /\ meta[e].hasVersion}

\* The last of them.
LastEarlierWithVersion(d) ==
    CHOOSE e \in EarlierWithVersion(d) : \A f \in EarlierWithVersion(d) : f <= e

\* No backend mapped to -1 is among the quorum disks.
QuorumExcludesUnreadable ==
    \A k \in DOMAIN rd.quorumDisks : rd.versions[rd.quorumDisks[k].disk] # -1

\* C29: the version probe maps every one of the N backends on its own: -1
\* for an unreadable or malformed file.json, 0 for a file.json without
\* file.version whatever the backends probed before it reported, its own
\* file.version otherwise; and no backend mapped to -1 is in the quorum set.
C29_ProbeIndependent ==
    /\ [](rd.pc = "versions" => rd.versions = IndependentVersions)
    /\ [](rd.pc \in {"size", "open", "pipe"} => QuorumExcludesUnreadable)
    /\ [][(rd.pc = "probe" /\ rd'.pc # "probe") =>
             /\ rd'.result # "panic"
             /\ rd'.versions = IndependentVersions]_vars

\* From line 555 on, with a result map that was made: every backend has an
\* entry; an unreadable file.json gives -1 and a file.version gives itself,
\* but a file.json without file.version gives the file.version of the last
\* backend before it that had one, and 0 only when none had; backends mapped
\* to -1 are not among the quorum disks.
ProbeCarriesVersion ==
    /\ rd.pc = "versions" =>
          /\ DOMAIN rd.versions = storageDisks
          /\ \A d \in storageDisks :
                rd.versions[d] =
                    IF ~meta[d].ok THEN -1
                    ELSE IF meta[d].hasVersion THEN meta[d].version
                    ELSE IF EarlierWithVersion(d) = {} THEN 0
                    ELSE meta[LastEarlierWithVersion(d)].version
    /\ rd.pc \in {"size", "open", "pipe"} => QuorumExcludesUnreadable

\* In the whole program every probe of a valid call panics.
ProbePanics ==
    [][(rd.pc = "probe" /\ rd'.pc # "probe") => rd'.result = "panic"]_vars

\* Every way the producer ends before the loop is through closes the pipe
\* with an error, which the consumer's next read returns; the pipe is closed
\* cleanly only when the loop is over.
StreamErrorsPropagated ==
    [][(prod.pc \in {"loop", "join"} /\ prod'.pc = "exit") =>
          /\ pipe'.werr # "open"
          /\ pipe'.werr = "eof" => ~loopContinues(prod.totalLeft)
          /\ pipe.werr = "open" /\ loopContinues(prod.totalLeft) =>
                pipe'.werr \in {"allZero", "reconstruct", "verifyAfterReconstruct",
                                "join", "errClosedPipe"}]_vars

\* C30: an open of a shard file that fails with a transport error is tried
\* a second time on the same backend, once, before it counts as a failed
\* open; errors inside the stream are not retried and reach the consumer.
C30_TransportRetriedOnce ==
    /\ []((OpensDone /\ rd.transport # -1) => rd.openCalls = 2)
    /\ StreamErrorsPropagated

\* What the loop of lines 624-641 does: one call of disk.ReadFile on every
\* quorum disk it gets to, whatever the error.
OpenCalledOnce ==
    (OpensDone /\ rd.transport # -1) =>
        /\ rd.openCalls = 1
        /\ rd.result \in {"panic", "errOpen"}

\* A step that is a call of ListObjects, and the marker it was called with.
CallStep == pg'.pages = pg.pages + 1

calledMarker == IF pg.pages = 0 THEN pg'.first ELSE pg.marker

\* The call was rejected with error e: an empty result, no walker popped or
\* created, the continuation cache as it was.
RejectedWith(e) ==
    /\ ls'.pc = "returned"
    /\ ls'.result = [NoResult EXCEPT !.err = e]
    /\ ls'.walker = NoWalker /\ ~ls'.popped
    /\ listObjectMap' = listObjectMap

\* The checks of a call, in the order the claim gives them; each is the
\* failure of its check given that the ones before it passed.
BadBucketName == ls'.bucket \notin ValidBucketNames
NoSuchBucket == ~BadBucketName /\ ~buckets[ls'.bucket].exists
BadPrefix == ~BadBucketName /\ ~NoSuchBucket /\ ~ls'.prefixOK
BadDelimiter ==
    /\ ~BadBucketName /\ ~NoSuchBucket /\ ~BadPrefix
    /\ ls'.delimiter \notin {"", "/"}
BadEscape ==
    /\ ~BadBucketName /\ ~NoSuchBucket /\ ~BadPrefix /\ ~BadDelimiter
    /\ calledMarker # << >> /\ badEscape(calledMarker)
BadMarker ==
    /\ ~BadBucketName /\ ~NoSuchBucket /\ ~BadPrefix /\ ~BadDelimiter /\ ~BadEscape
    /\ calledMarker # << >>
    /\ ~IsPrefix(ls'.prefix, ls'.marker)

\* C31: a call with an invalid bucket name, a bucket that does not exist, an
\* invalid prefix, a delimiter other than "" and "/", a marker that cannot be
\* unescaped or an unescaped marker that does not start with the prefix is
\* rejected with the error of the first of these checks that fails, in this
\* order, with an empty result, the continuation cache unchanged and no
\* walker popped or created; a call that passes them all is not rejected.
C31_ListObjectsRejects ==
    [][CallStep =>
          /\ BadBucketName => RejectedWith("BucketNameInvalid")
          /\ NoSuchBucket => RejectedWith("BucketNotFound")
          /\ BadPrefix => RejectedWith("ObjectNameInvalid")
          /\ BadDelimiter => RejectedWith("delimiter")
          /\ BadEscape => RejectedWith("unescape")
          /\ BadMarker => RejectedWith("markerPrefix")
          /\ ~(BadBucketName \/ NoSuchBucket \/ BadPrefix \/ BadDelimiter
                 \/ BadEscape \/ BadMarker) => ls'.result.err = ""]_vars

\* A call with the delimiter "," was rejected while a walker was parked under
\* the marker it was called with.
C31_Witness ==
    /\ ls.pc = "returned" /\ ls.result.err = "delimiter"
    /\ pg.pages > 1
    /\ \E e \in listObjectMap :
          /\ e.params.marker = ls.marker
          /\ e.params.bucket = ls.bucket /\ e.params.prefix = ls.prefix

\* The limit that holds for a call with maxKeys = mk.
effectiveLimit(mk) ==
    IF 1 <= mk /\ mk <= listObjectsLimit THEN mk
    ELSE IF mk < 0 \/ mk > listObjectsLimit THEN listObjectsLimit
    ELSE 0

\* C32: a result holds at most the effective limit of entries, Objects and
\* Prefixes together: maxKeys when it is within 1 .. listObjectsLimit,
\* listObjectsLimit when it is negative or greater; a page with IsTruncated
\* = true holds exactly that many.
C32_PageWithinLimit ==
    (ls.pc = "returned" /\ pg.pages > 0) =>
        /\ resultLen(ls.result) <= effectiveLimit(pg.maxKeys)
        /\ ls.result.IsTruncated =>
              resultLen(ls.result) = effectiveLimit(pg.maxKeys)

\* A truncated page of MaxKeys entries, a directory among them.
C32_Witness ==
    /\ ls.pc = "returned" /\ ls.result.IsTruncated
    /\ pg.maxKeys = MaxKeys
    /\ resultLen(ls.result) = MaxKeys
    /\ Len(ls.result.Prefixes) > 0

\* A call with maxKeys above listObjectsLimit returned the whole listing.
C32_WitnessClamped ==
    /\ ls.pc = "returned" /\ pg.maxKeys > listObjectsLimit
    /\ ls.maxKeys = listObjectsLimit
    /\ resultLen(ls.result) > MaxKeys
    /\ ~ls.result.IsTruncated

\* A step in which a call that holds a walker returns.
LoopReturns == ls.pc = "loop" /\ ls'.pc = "returned"

\* The walker has sent all it had and closed its stream; the walker is in
\* the continuation cache.
Exhausted(walker) == walker.ch = << >>

ParkedIn(map, walker) == \E e \in map : e.walker = walker

\* The walker of the call is exhausted and closed with an untruncated
\* result, or parked with a truncated one.
WalkerSettled ==
    \/ /\ ~ls'.result.IsTruncated
       /\ Exhausted(ls'.walker) /\ ~ParkedIn(listObjectMap', ls'.walker)
    \/ /\ ls'.result.IsTruncated
       /\ ParkedIn(listObjectMap', ls'.walker)

WalkerSettledUnlessError ==
    [][LoopReturns =>
          /\ ls'.result.err = "" => WalkerSettled
          /\ ls'.result.err # "" =>
                /\ ls'.result = [NoResult EXCEPT !.err = "walker"]
                /\ ~ParkedIn(listObjectMap', ls'.walker)
                /\ listObjectMap' = listObjectMap]_vars

\* The TTL of the cache is a timer: an entry that stays parked expires.
SpecListFair == SpecList /\ WF_vars(ExpireListObjectCh)

\* Under SpecListFair no walker stays parked for ever: the cache is emptied
\* by expiry once the client has stopped.
ParkedWalkersExpire == (listObjectMap # {}) ~> (listObjectMap = {})

(***************************************************************************)
(* Concurrent ListObjects calls (lines 43-152): every caller lists the     *)
(* bucket "bkt" with prefix "" and delimiter "", from the start or from a  *)
(* NextMarker that some call has returned, so that calls with identical    *)
(* parameters meet.  A call holds its walker from line 121 to its return;  *)
(* the calls of the others run in between.                                 *)
(***************************************************************************)
MaxCalls == 3

CallerNo(c) == IF c = "c1" THEN 1 ELSE 2

\* The calls made so far, by all callers.
callsMade == calls["c1"].n + calls["c2"].n

\* The id of the walker caller c creates in its n-th call.
freshId(c, n) == 10 * CallerNo(c) + n

\* The markers a caller may pass: none, or a NextMarker handed out before.
KnownMarkers ==
    {<< >>} \cup {calls[c].result.NextMarker : c \in Callers}
            \cup {e.params.marker : e \in listObjectMap}

ConcurrentCallsKeys == {<<"p", "/", "q">>, <<"p", "/", "r">>, <<"s">>}

\* Lines 43-124 for caller c.
ConcurrentCall(c, marker, maxKeys, ioErr) ==
    /\ calls[c].pc # "loop"
    /\ callsMade < MaxCalls
    /\ LET err == validationError("bkt", TRUE, << >>, marker, "")
           m == unescapedMarker(marker)
           params == ListObjectParams("bkt", "", m, << >>)
           popped == popListObjectCh(params)
           called == [CallIdle EXCEPT !.n = calls[c].n + 1, !.marker = m,
                                      !.maxKeys = maxKeys]
       IN  IF err # ""
           THEN /\ calls' = [calls EXCEPT ![c] =
                               [called EXCEPT !.pc = "returned", !.result.err = err]]
                /\ UNCHANGED listObjectMap
           ELSE IF returnsEmpty(maxKeys) \/ ~prefixDirExists(buckets["bkt"].keys, << >>)
           THEN /\ calls' = [calls EXCEPT ![c] = [called EXCEPT !.pc = "returned"]]
                /\ UNCHANGED listObjectMap
           ELSE /\ calls' = [calls EXCEPT ![c] =
                               [called EXCEPT
                                  !.pc = "loop",
                                  !.maxKeys = clampMaxKeys(maxKeys),
                                  !.popped = popped.id # 0,
                                  !.walker =
                                      IF popped.id # 0 THEN popped
                                      ELSE [id |-> freshId(c, called.n),
                                            ch |-> getObjectInfoChannel(
                                                      buckets["bkt"].keys, << >>, m,
                                                      TRUE, ioErr)]]]
                /\ listObjectMap' = afterPop(params)
    /\ UNCHANGED <<buckets, ls, pg, put, resp>>
    /\ UNCHANGED <<xlVars, nsVars>>

\* Lines 126-152 for caller c.
ConcurrentLoop(c) ==
    /\ calls[c].pc = "loop"
    /\ LET l == receiveLoop(calls[c].walker.ch, 0, calls[c].maxKeys, NoResult, << >>)
           walker == [calls[c].walker EXCEPT !.ch = l.ch]
           result == IF l.exit = "full"
                     THEN [l.result EXCEPT !.IsTruncated = TRUE,
                                           !.NextMarker = l.nextMarker]
                     ELSE l.result
       IN  /\ calls' = [calls EXCEPT ![c] =
                          [@ EXCEPT !.pc = "returned", !.walker = walker,
                                    !.result = result]]
           /\ listObjectMap' =
                IF l.exit = "full"
                THEN pushListObjectCh(listObjectMap,
                        ListObjectParams("bkt", "", l.nextMarker, << >>), walker)
                ELSE listObjectMap
    /\ UNCHANGED <<buckets, ls, pg, put, resp>>
    /\ UNCHANGED <<xlVars, nsVars>>

InitConcurrent ==
    /\ XLNone
    /\ \E keys \in SUBSET ConcurrentCallsKeys :
          buckets = [b \in BucketNames |->
                        IF b = "bkt"
                        THEN [exists |-> TRUE, acl |-> "private", keys |-> keys]
                        ELSE NoBucket]
    /\ listObjectMap = {}
    /\ ls = LsIdle
    /\ pg = PgNone
    /\ put = PutNone
    /\ calls = CallsNone
    /\ resp = RespNone
    /\ NsNone

NextConcurrent ==
    \/ \E c \in Callers, marker \in KnownMarkers, maxKeys \in {0, 1, MaxKeys},
          ioErr \in {"none", "goesOn"} :
            ConcurrentCall(c, marker, maxKeys, ioErr)
    \/ \E c \in Callers : ConcurrentLoop(c)
    \/ ExpireListObjectCh

SpecConcurrent == InitConcurrent /\ [][NextConcurrent]_vars

\* The callers that are between line 121 and their return, and the walkers
\* they hold.
Consuming == {c \in Callers : calls[c].pc = "loop"}

\* C34: under every interleaving of the calls, no walker is held by two
\* calls at a time and no walker is in the continuation cache while a call
\* holds it; a call that finds a walker parked under its parameters takes it
\* out of the cache, and a call that finds none creates a walker of its own.
C34_SingleConsumer ==
    /\ [](/\ \A c, d \in Consuming : c # d => calls[c].walker.id # calls[d].walker.id
          /\ \A c \in Consuming : \A e \in listObjectMap :
                e.walker.id # calls[c].walker.id)
    /\ [][\A c \in Callers :
            (calls[c].pc # "loop" /\ calls'[c].pc = "loop") =>
                IF calls'[c].popped
                THEN /\ ParkedIn(listObjectMap, calls'[c].walker)
                     /\ ~ParkedIn(listObjectMap', calls'[c].walker)
                ELSE /\ calls'[c].walker.id = freshId(c, calls'[c].n)
                     /\ \A e \in listObjectMap : e.walker.id # calls'[c].walker.id
                     /\ \A d \in Callers \ {c} :
                           calls[d].walker.id # calls'[c].walker.id]_vars

\* Two calls with identical parameters are between line 121 and their
\* return: one took the walker parked under the marker, the other made its own.
C34_Witness ==
    /\ calls["c1"].pc = "loop" /\ calls["c2"].pc = "loop"
    /\ calls["c1"].marker = calls["c2"].marker
    /\ calls["c1"].marker # << >>
    /\ calls["c1"].popped /\ ~calls["c2"].popped

(***************************************************************************)
(* The bucket handlers of bucket-handlers.go.  A handler is one action;    *)
(* ListObjectsHandler hands over to ListObjects (ListObjectsCall, then     *)
(* ListObjectsLoop) and writes its response in ListObjectsRespond.  The    *)
(* methods of api.Filesystem other than ListObjects and MakeBucket are     *)
(* known by their errors only.                                             *)
(***************************************************************************)
PrivateCheckHandlers == {"ListObjects", "ListMultipartUploads", "HeadBucket"}

BucketHandlers ==
    PrivateCheckHandlers \cup
        {"ListBuckets", "PutBucket", "PutBucketACL", "GetBucketACL", "DeleteBucket"}

\* What IsPrivateBucket can answer: the ACL of a bucket that exists, either
\* answer for one that does not.
PrivateAnswers(bucket) ==
    IF buckets[bucket].exists THEN {buckets[bucket].acl = "private"} ELSE BOOLEAN

\* The test with the negation of api.Anonymous dropped.
aclRefusedAnonymous(handler, anonymous, aclCheck, private) ==
    /\ anonymous /\ aclCheck
    /\ handler \in PrivateCheckHandlers => private

\* The first statement of every handler (lines 42-49, 90-97, 146-151,
\* 337-342, 376-381, 415-422, 445-450): the request is refused.
aclRefused(handler, anonymous, aclCheck, private) ==
    /\ ~anonymous /\ aclCheck
    /\ handler \in PrivateCheckHandlers => private

\* The calls of api.Filesystem that first statement makes.
aclCalls(handler, anonymous, aclCheck) ==
    IF ~anonymous /\ aclCheck /\ handler \in PrivateCheckHandlers
    THEN <<"IsPrivateBucket">>
    ELSE << >>

\* The request in the hands of the handler, its response to be written.
request(handler, bucket, anonymous, aclCheck, private) ==
    [RespNone EXCEPT !.n = resp.n + 1, !.handler = handler, !.bucket = bucket,
                     !.aclRequired = ~anonymous /\ aclCheck, !.private = private,
                     !.written = 1,
                     !.fsCalls = aclCalls(handler, anonymous, aclCheck)]

\* The requests the handlers take.
MaxHandled == 2

\* No request is in the hands of a handler, and one more may come.
HandlerFree == resp.n < MaxHandled /\ resp.status # "calling"

\* The error of GetBucketMetadata, SetBucketMetadata and ListMultipartUploads,
\* "" when there is none.
bucketMetadataError(bucket, ioErr) ==
    IF ~IsValidBucketName(bucket) THEN "BucketNameInvalid"
    ELSE IF ~buckets[bucket].exists THEN "BucketNotFound"
    ELSE IF ioErr THEN "io"
    ELSE ""

\* The error of DeleteBucket, "" when it removes the bucket.
DeleteBucketError(bucket, ioErr) ==
    IF bucketMetadataError(bucket, FALSE) # "" THEN bucketMetadataError(bucket, FALSE)
    ELSE IF buckets[bucket].keys # {} THEN "BucketNotEmpty"
    ELSE IF ioErr THEN "io"
    ELSE ""

\* The switch on the error type at the end of each handler, and the success
\* response.
errorResponse(handler, err) ==
    IF err = "" THEN (IF handler = "DeleteBucket" THEN "NoContent" ELSE "OK")
    ELSE IF err = "BucketNotFound" THEN "NoSuchBucket"
    ELSE IF /\ err = "BucketNameInvalid"
            /\ handler \in {"ListObjects", "PutBucketACL", "GetBucketACL", "HeadBucket"}
         THEN "InvalidBucketName"
    ELSE IF err = "BucketNotEmpty" /\ handler = "DeleteBucket" THEN "BucketNotEmpty"
    ELSE IF err \in {"ObjectNotFound", "ObjectNameInvalid"} /\ handler = "ListObjects"
         THEN "NoSuchKey"
    ELSE "InternalError"

maxObjectList == 1000

\* Lines 38-79.
ListMultipartUploadsHandler(bucket, anonymous, aclCheck, private, MaxUploads, ioErr) ==
    /\ HandlerFree
    /\ LET h == "ListMultipartUploads"
           req == request(h, bucket, anonymous, aclCheck, private)
       IN  resp' =
             IF aclRefused(h, anonymous, aclCheck, private)
             THEN [req EXCEPT !.status = "AccessDenied"]
             ELSE IF MaxUploads < 0
             THEN [req EXCEPT !.status = "InvalidMaxUploads"]
             ELSE [req EXCEPT !.status = errorResponse(h, bucketMetadataError(bucket, ioErr)),
                              !.fsCalls = @ \o <<"ListMultipartUploads">>]
    /\ UNCHANGED <<buckets, listObjectMap, ls, pg, put, calls>>
    /\ UNCHANGED <<xlVars, nsVars>>

\* Lines 86-139, up to the return of api.Filesystem.ListObjects.
ListObjectsHandler(bucket, anonymous, aclCheck, private, Maxkeys, prefixOK, marker, delimiter, ioErr) ==
    /\ HandlerFree
    /\ LET h == "ListObjects"
           req == request(h, bucket, anonymous, aclCheck, private)
       IN  IF aclRefused(h, anonymous, aclCheck, private) \/ Maxkeys < 0
           THEN /\ resp' = [req EXCEPT !.status =
                                IF aclRefused(h, anonymous, aclCheck, private)
                                THEN "AccessDenied" ELSE "InvalidMaxKeys"]
                /\ UNCHANGED <<buckets, listObjectMap, ls, pg, put, calls>>
                /\ UNCHANGED <<xlVars, nsVars>>
           ELSE /\ ListObjectsCall(bucket, prefixOK, << >>, marker, delimiter,
                                   IF Maxkeys = 0 THEN maxObjectList ELSE Maxkeys, ioErr)
                /\ resp' = [req EXCEPT !.status = "calling", !.written = 0,
                                       !.fsCalls = @ \o <<"ListObjects">>]

\* Lines 118-138: the response to what ListObjects returned.
ListObjectsRespond ==
    /\ resp.status = "calling"
    /\ ls.pc = "returned"
    /\ resp' = [resp EXCEPT !.status = errorResponse("ListObjects", ls.result.err),
                            !.written = 1]
    /\ UNCHANGED <<buckets, listObjectMap, ls, pg, put, calls>>
    /\ UNCHANGED <<xlVars, nsVars>>

\* Lines 145-165.
ListBucketsHandler(anonymous, aclCheck, ioErr) ==
    /\ HandlerFree
    /\ LET h == "ListBuckets"
           req == request(h, "", anonymous, aclCheck, FALSE)
       IN  resp' =
             IF aclRefused(h, anonymous, aclCheck, FALSE)
             THEN [req EXCEPT !.status = "AccessDenied"]
             ELSE [req EXCEPT !.status = errorResponse(h, IF ioErr THEN "io" ELSE ""),
                              !.fsCalls = @ \o <<"ListBuckets">>]
    /\ UNCHANGED <<buckets, listObjectMap, ls, pg, put, calls>>
    /\ UNCHANGED <<xlVars, nsVars>>

\* Lines 333-364.
PutBucketACLHandler(bucket, anonymous, aclCheck, aclType, ioErr) ==
    /\ HandlerFree
    /\ LET h == "PutBucketACL"
           req == request(h, bucket, anonymous, aclCheck, FALSE)
           err == bucketMetadataError(bucket, ioErr)
       IN  IF aclRefused(h, anonymous, aclCheck, FALSE) \/ aclType = "unsupported"
           THEN /\ resp' = [req EXCEPT !.status =
                                IF aclRefused(h, anonymous, aclCheck, FALSE)
                                THEN "AccessDenied" ELSE "NotImplemented"]
                /\ UNCHANGED buckets
           ELSE /\ resp' = [req EXCEPT !.status = errorResponse(h, err),
                                       !.fsCalls = @ \o <<"SetBucketMetadata">>]
                /\ buckets' = IF err = "" THEN [buckets EXCEPT ![bucket].acl = aclType]
                              ELSE buckets
    /\ UNCHANGED <<listObjectMap, ls, pg, put, calls>>
    /\ UNCHANGED <<xlVars, nsVars>>

\* Lines 372-403 (GetBucketACL) and 411-438 (HeadBucket): both answer from
\* GetBucketMetadata.
getBucketMetadataHandler(h, bucket, anonymous, aclCheck, private, ioErr) ==
    /\ HandlerFree
    /\ LET req == request(h, bucket, anonymous, aclCheck, private)
       IN  resp' =
             IF aclRefused(h, anonymous, aclCheck, private)
             THEN [req EXCEPT !.status = "AccessDenied"]
             ELSE [req EXCEPT !.status = errorResponse(h, bucketMetadataError(bucket, ioErr)),
                              !.fsCalls = @ \o <<"GetBucketMetadata">>]
    /\ UNCHANGED <<buckets, listObjectMap, ls, pg, put, calls>>
    /\ UNCHANGED <<xlVars, nsVars>>

GetBucketACLHandler(bucket, anonymous, aclCheck, ioErr) ==
    getBucketMetadataHandler("GetBucketACL", bucket, anonymous, aclCheck, FALSE, ioErr)

HeadBucketHandler(bucket, anonymous, aclCheck, private, ioErr) ==
    getBucketMetadataHandler("HeadBucket", bucket, anonymous, aclCheck, private, ioErr)

\* Lines 441-466.
DeleteBucketHandler(bucket, anonymous, aclCheck, ioErr) ==
    /\ HandlerFree
    /\ LET h == "DeleteBucket"
           req == request(h, bucket, anonymous, aclCheck, FALSE)
           err == DeleteBucketError(bucket, ioErr)
       IN  IF aclRefused(h, anonymous, aclCheck, FALSE)
           THEN /\ resp' = [req EXCEPT !.status = "AccessDenied"]
                /\ UNCHANGED buckets
           ELSE /\ resp' = [req EXCEPT !.status = errorResponse(h, err),
                                       !.fsCalls = @ \o <<"DeleteBucket">>]
                /\ buckets' = IF err = "" THEN [buckets EXCEPT ![bucket] = NoBucket]
                              ELSE buckets
    /\ UNCHANGED <<listObjectMap, ls, pg, put, calls>>
    /\ UNCHANGED <<xlVars, nsVars>>

\* One bucket, private or public, empty or holding an object; the other
\* names free.
InitHandlers ==
    /\ XLNone
    /\ \E keys \in SUBSET {<<"s">>},
          acl \in ACLTypes \ {"unsupported"} :
          buckets = [b \in BucketNames |->
                        IF b = "bkt"
                        THEN [exists |-> TRUE, acl |-> acl, keys |-> keys]
                        ELSE NoBucket]
    /\ listObjectMap = {}
    /\ ls = LsIdle
    /\ pg = PgNone
    /\ put = PutNone
    /\ calls = CallsNone
    /\ resp = RespNone
    /\ NsNone

NextHandlers ==
    \/ \E bucket \in BucketNames, anonymous, aclCheck, ioErr \in BOOLEAN,
          MaxUploads \in {-1, 0} :
          \E private \in PrivateAnswers(bucket) :
            ListMultipartUploadsHandler(bucket, anonymous, aclCheck, private, MaxUploads,
                                        ioErr)
    \/ /\ HandlerFree
       /\ \E bucket \in BucketNames, anonymous, aclCheck \in BOOLEAN,
             Maxkeys \in {-1, 0, 1}, delimiter \in {"/", ","} :
             \E private \in PrivateAnswers(bucket) :
               ListObjectsHandler(bucket, anonymous, aclCheck, private, Maxkeys, TRUE,
                                  pg.marker, delimiter, "none")
    \/ ListObjectsLoop
    \/ ListObjectsRespond
    \/ \E anonymous, aclCheck, ioErr \in BOOLEAN :
          ListBucketsHandler(anonymous, aclCheck, ioErr)
    \/ /\ HandlerFree
       /\ \E bucket \in BucketNames, aclType \in {"private", "unsupported"},
             sig \in {"none", "v4"}, body \in {"nil", "length"},
             anonymous, aclCheck \in BOOLEAN :
               PutBucketHandler(bucket, anonymous, aclCheck, aclType, sig, body, FALSE,
                                "mismatch", FALSE)
    \/ \E bucket \in BucketNames, aclType \in ACLTypes,
          anonymous, aclCheck, ioErr \in BOOLEAN :
          PutBucketACLHandler(bucket, anonymous, aclCheck, aclType, ioErr)
    \/ \E bucket \in BucketNames, anonymous, aclCheck, ioErr \in BOOLEAN :
          GetBucketACLHandler(bucket, anonymous, aclCheck, ioErr)
    \/ \E bucket \in BucketNames, anonymous, aclCheck, ioErr \in BOOLEAN :
          \E private \in PrivateAnswers(bucket) :
            HeadBucketHandler(bucket, anonymous, aclCheck, private, ioErr)
    \/ \E bucket \in BucketNames, anonymous, aclCheck, ioErr \in BOOLEAN :
          DeleteBucketHandler(bucket, anonymous, aclCheck, ioErr)

SpecHandlers == InitHandlers /\ [][NextHandlers]_vars

\* The request last handled came with !api.Anonymous and a required ACL check
\* and, to one of the three handlers that ask IsPrivateBucket, for a private
\* bucket.
Denied ==
    /\ resp.n > 0
    /\ resp.aclRequired
    /\ resp.handler \in PrivateCheckHandlers => resp.private

\* C35 as stated: a request refused for its ACL is answered AccessDenied with
\* exactly one response, and its handler has made no call of api.Filesystem
\* that reads or changes a bucket or its metadata.
C35_DeniedWithoutFilesystemCall ==
    Denied => /\ resp.status = "AccessDenied"
              /\ resp.written = 1
              /\ resp.fsCalls = << >>

\* C35: a request refused for its ACL is answered AccessDenied with exactly
\* one response; its handler has made no call of api.Filesystem but the
\* IsPrivateBucket of ListObjects, ListMultipartUploads and HeadBucket, and
\* the request leaves the buckets, the continuation cache and the listing as
\* they were.
C35_DeniedAfterPrivateCheckOnly ==
    /\ [](Denied => /\ resp.status = "AccessDenied"
                    /\ resp.written = 1
                    /\ resp.fsCalls = IF resp.handler \in PrivateCheckHandlers
                                      THEN <<"IsPrivateBucket">> ELSE << >>)
    /\ [][(resp'.n = resp.n + 1 /\ Denied')
             => UNCHANGED <<buckets, listObjectMap, ls, pg>>]_vars

\* ListObjects on an existing private bucket with objects is refused after the
\* handler has served another request from the filesystem.
C35_Witness ==
    /\ Denied
    /\ resp.n > 1
    /\ resp.handler = "ListObjects"
    /\ resp.status = "AccessDenied"
    /\ buckets[resp.bucket].exists /\ buckets[resp.bucket].keys # {}

\* DeleteBucket on an existing empty bucket is refused and the bucket stays.
C35_WitnessDelete ==
    /\ Denied
    /\ resp.handler = "DeleteBucket"
    /\ resp.status = "AccessDenied"
    /\ buckets[resp.bucket].exists /\ buckets[resp.bucket].keys = {}

(***************************************************************************)
(* The signature and body checks of PutBucketHandler (lines 188-226).      *)
(***************************************************************************)
\* A request of a signed (not anonymous, Signature V4) caller that passes the
\* ACL check and names a supported ACL.
SignedRequest(anonymous, aclCheck, aclType, sig) ==
    ~anonymous /\ ~aclCheck /\ aclType # "unsupported" /\ sig = "v4"

\* C36: a signed PutBucket request with a body whose signature does not match
\* is answered SignatureDoesNotMatch without a call of MakeBucket, and one
\* whose body has no Content-Length is answered MissingContentLength without
\* a call of MakeBucket.
C36_SignatureGatesMakeBucket ==
    [][\A bucket \in BucketNames, aclType \in ACLTypes, sig \in Signatures,
          body \in Bodies, match \in Matches,
          anonymous, aclCheck, readErr, ioErr \in BOOLEAN :
          (/\ PutBucketHandler(bucket, anonymous, aclCheck, aclType, sig, body, readErr,
                               match, ioErr)
           /\ SignedRequest(anonymous, aclCheck, aclType, sig))
             => /\ (body = "length" /\ match = "mismatch")
                      => (put'.status = "SignatureDoesNotMatch" /\ ~put'.made)
                /\ body = "noLength"
                      => (put'.status = "MissingContentLength" /\ ~put'.made)]_vars

(***************************************************************************)
(* The outcome of ReadFile from line 555 on as a function of the order in  *)
(* which the range of line 556 visits the version map.                     *)
(***************************************************************************)
\* Lines 555-641 for one iteration order: the error ReadFile returns, or the
\* panic of line 639 with the file size it had read.
readFileOutcome(order) ==
    LET quorumDisks == getReadFileQuorumDisks(rd.versions, order)
        size == getFileSize(meta[quorumDisks[1].disk])
    IN  IF Len(quorumDisks) < readQuorum THEN <<"errReadQuorum">>
        ELSE IF size.err THEN <<"errSize">>
        ELSE <<openLoop(quorumDisks, 1, 0, rd.offset, -1).outcome, size.size>>

\* The range visits the backends in the order of storageDisks.
BackendOrder == [k \in 1 .. totalBlocks |-> k - 1]

\* The backends among the quorum disks.
quorumSet(order) ==
    LET quorumDisks == getReadFileQuorumDisks(rd.versions, order)
    IN  {quorumDisks[k].disk : k \in DOMAIN quorumDisks}

\* C37: with the version map in hand, every iteration order of the map gives
\* ReadFile the same outcome.
C37_OutcomeIndependentOfOrder ==
    rd.pc = "versions" =>
        \A order \in IterationOrders(DOMAIN rd.versions) :
            readFileOutcome(order) = readFileOutcome(BackendOrder)

\* What does not depend on the order: the set of the quorum disks, hence
\* whether ReadFile returns errReadQuorum.
QuorumSetIndependentOfOrder ==
    rd.pc = "versions" =>
        \A order \in IterationOrders(DOMAIN rd.versions) :
            quorumSet(order) = quorumSet(BackendOrder)

(***************************************************************************)
(* ReadFile of an object that no backend has metadata for.                 *)
(***************************************************************************)
\* No backend returns a readable file.json: the object is absent everywhere,
\* or every backend is unreachable.
NoMetadata == \A d \in storageDisks : ~meta[d].ok

\* The version map has the entry -1 for every backend.
NothingProbed ==
    /\ DOMAIN rd.versions = storageDisks
    /\ \A d \in storageDisks : rd.versions[d] = -1

\* A call that found no version has returned errReadQuorum with no shard file
\* opened, no producer, no pipe and the namespace lock released.
NoVersionsIsReadQuorumError ==
    (rd.pc = "returned" /\ NothingProbed) =>
        /\ rd.result = "errReadQuorum"
        /\ rd.quorumDisks = << >>
        /\ readers = << >>
        /\ prod = ProdNone /\ pipe = PipeNone
        /\ nsLock.readers = 0

\* C38: when no backend has readable metadata the version probe of a valid
\* call maps every backend to -1, and the call then returns errReadQuorum
\* with no stream, no shard file opened, no producer started and the
\* namespace lock released.
C38_AbsentObjectReadQuorum ==
    /\ [][(rd.pc = "probe" /\ rd'.pc # "probe" /\ NoMetadata)
             => (rd'.pc = "versions" /\ NothingProbed')]_vars
    /\ []NoVersionsIsReadQuorumError

=============================================================================
